---- MODULE Spec2Model ----
(***************************************************************************)
(* Swift -> Kotlin change-relevance classifier of                          *)
(* server/utils/code_analyzer.py, with the log reader of                   *)
(* detect_swift_changes.py and the card tools of server/tools/smart_card.py*)
(* and server/tools/card_review.py that are built on it.                   *)
(*                                                                         *)
(* Text is modelled as text: a path, a diff line or a file's content is a  *)
(* string, and the regular expressions of the source are matchers over the *)
(* characters of that string.  Version control and the two file systems    *)
(* are the environment: the repository is a fixed catalogue of commits,    *)
(* the file-system snapshot is chosen in Init.                             *)
(***************************************************************************)
EXTENDS Integers, Sequences, FiniteSets, TLC

VARIABLES fs, pc, call, ret, queue, relevant_commits, tasks, service_calls

vars == <<fs, pc, call, ret, queue, relevant_commits, tasks, service_calls>>

(***************************************************************************)
(* Python str and re primitives                                            *)
(***************************************************************************)

\* s[i] (1-based), "" outside the string
Ch(s, i) == IF i >= 1 /\ i <= Len(s) THEN SubSeq(s, i, i) ELSE ""

LowerLetters ==
    {"a","b","c","d","e","f","g","h","i","j","k","l","m",
     "n","o","p","q","r","s","t","u","v","w","x","y","z"}

UpperToLower ==
    [A |-> "a", B |-> "b", C |-> "c", D |-> "d", E |-> "e", F |-> "f",
     G |-> "g", H |-> "h", I |-> "i", J |-> "j", K |-> "k", L |-> "l",
     M |-> "m", N |-> "n", O |-> "o", P |-> "p", Q |-> "q", R |-> "r",
     S |-> "s", T |-> "t", U |-> "u", V |-> "v", W |-> "w", X |-> "x",
     Y |-> "y", Z |-> "z"]

Digits == {"0","1","2","3","4","5","6","7","8","9"}

\* str.lower() of one character
LowerCh(c) == IF c \in DOMAIN UpperToLower THEN UpperToLower[c] ELSE c

\* the class \w
IsWordCh(c) == c \in LowerLetters \/ c \in DOMAIN UpperToLower \/ c \in Digits \/ c = "_"

\* the class \s
IsSpaceCh(c) == c \in {" ", "\t", "\n"}

\* s[i:i+len(lit)] == lit
LitAt(s, i, lit) == i >= 1 /\ i + Len(lit) - 1 <= Len(s) /\ SubSeq(s, i, i + Len(lit) - 1) = lit

\* the same under re.IGNORECASE
LitAtNoCase(s, i, lit) ==
    /\ i >= 1
    /\ i + Len(lit) - 1 <= Len(s)
    /\ \A k \in 1..Len(lit) : LowerCh(Ch(s, i + k - 1)) = LowerCh(Ch(lit, k))

\* sub in s ; also re.search of a pattern that is a literal
Contains(s, sub) == \E i \in 1..(Len(s) - Len(sub) + 1) : LitAt(s, i, sub)

\* sub in s.lower(), for a lower-case sub
ContainsLower(s, sub) == \E i \in 1..(Len(s) - Len(sub) + 1) : LitAtNoCase(s, i, sub)

StartsWith(s, pre) == LitAt(s, 1, pre)

EndsWith(s, suf) == Len(suf) <= Len(s) /\ LitAt(s, Len(s) - Len(suf) + 1, suf)

\* \b between s[i-1] and s[i]
WordBoundary(s, i) == IsWordCh(Ch(s, i - 1)) # IsWordCh(Ch(s, i))

\* end of the run of \s starting at i (the position after it); i if none
RECURSIVE SkipSpace(_, _)
SkipSpace(s, i) == IF IsSpaceCh(Ch(s, i)) THEN SkipSpace(s, i + 1) ELSE i

\* end of the run of \w starting at i (the position after it); i if none
RECURSIVE SkipWord(_, _)
SkipWord(s, i) == IF IsWordCh(Ch(s, i)) THEN SkipWord(s, i + 1) ELSE i

\* str.strip()
RECURSIVE LStrip(_)
LStrip(s) == IF Len(s) > 0 /\ IsSpaceCh(Ch(s, 1)) THEN LStrip(SubSeq(s, 2, Len(s))) ELSE s

RECURSIVE RStrip(_)
RStrip(s) == IF Len(s) > 0 /\ IsSpaceCh(Ch(s, Len(s))) THEN RStrip(SubSeq(s, 1, Len(s) - 1)) ELSE s

Strip(s) == RStrip(LStrip(s))

\* sep.join(lines), halving the list
RECURSIVE Join(_, _)
Join(lines, sep) ==
    IF Len(lines) = 0 THEN ""
    ELSE IF Len(lines) = 1 THEN lines[1]
    ELSE Join(SubSeq(lines, 1, Len(lines) \div 2), sep) \o sep
         \o Join(SubSeq(lines, Len(lines) \div 2 + 1, Len(lines)), sep)

\* xs[:n]
Take(xs, n) == SubSeq(xs, 1, IF Len(xs) < n THEN Len(xs) ELSE n)

Range(xs) == {xs[i] : i \in DOMAIN xs}

(***************************************************************************)
(* Configuration tables                                                    *)
(***************************************************************************)

\* the regular expressions are literals once the escapes are read
EXCLUDE_PATTERNS ==
    <<".vscode/", ".git/", "Demo/", "Tests/", ".xcodeproj/", ".xcworkspace/",
      "Package.resolved", ".gitignore", "README.md", "CHANGELOG.md">>

RELEVANT_PATTERNS ==
    <<"Sources/ReachuCore/", "Sources/ReachuUI/",
      "Sources/ReachuDesignSystem/", "Sources/ReachuNetwork/">>

KOTLIN_RELEVANT_KEYWORDS ==
    <<"public", "struct", "class", "enum", "func", "protocol",
      "Configuration", "Manager", "Service", "Component", "Model",
      "API", "Network", "Cache", "Localization", "Translation">>

KOTLIN_IRRELEVANT_KEYWORDS ==
    <<"import SwiftUI", "import UIKit", "@State", "@Binding", "@ObservedObject",
      "View", "PreviewProvider", "XCTest", "test", "Test">>

(***************************************************************************)
(* File Relevance Filter                                                   *)
(***************************************************************************)

\* some exclusion pattern is found in the path
ExcludeMatches(file_path) ==
    \E k \in DOMAIN EXCLUDE_PATTERNS : Contains(file_path, EXCLUDE_PATTERNS[k])

\* some inclusion pattern is found in the path
RelevantMatches(file_path) ==
    \E k \in DOMAIN RELEVANT_PATTERNS : Contains(file_path, RELEVANT_PATTERNS[k])

\* A filter that consults the inclusion patterns before the exclusions
is_relevant_inclusion_first(file_path) ==
    IF RelevantMatches(file_path) THEN TRUE
    ELSE IF ExcludeMatches(file_path) THEN FALSE
    ELSE FALSE

\* A filter that admits whatever lies under Sources/ and is not excluded
is_relevant_open_world(file_path) ==
    IF ExcludeMatches(file_path) THEN FALSE
    ELSE IF RelevantMatches(file_path) THEN TRUE
    ELSE Contains(file_path, "Sources/")

\* lines 71-95
is_relevant_for_kotlin(file_path) ==
    IF ExcludeMatches(file_path) THEN FALSE
    ELSE IF RelevantMatches(file_path) THEN TRUE
    ELSE IF ~Contains(file_path, "Sources/") THEN FALSE
    ELSE FALSE

(***************************************************************************)
(* Structural Delta Analyzer: the regular expressions                      *)
(*                                                                         *)
(* A matcher is a chain of operators, each handing the positions it found  *)
(* to the next one as arguments.                                           *)
(***************************************************************************)

NoMatch == [ok |-> FALSE]

\* the least element of a set of positions, 0 for the empty set: re.search
\* tries the start positions from left to right
Min0(hits) == IF hits = {} THEN 0 ELSE CHOOSE i \in hits : \A j \in hits : i <= j

\* the greatest element of a set of positions, 0 for the empty set
Max0(hits) == IF hits = {} THEN 0 ELSE CHOOSE i \in hits : \A j \in hits : j <= i

\* leftmost position of s where P holds, 0 if none
FirstPos(s, P(_, _)) == Min0({i \in 1..Len(s) : P(s, i)})

\* (?:lit\s+)? at i: the position after it, i when it is not there
OptLit(s, i, lit) ==
    IF LitAt(s, i, lit) /\ IsSpaceCh(Ch(s, i + Len(lit)))
    THEN SkipSpace(s, i + Len(lit))
    ELSE i

RECURSIVE OptLits(_, _, _)
OptLits(s, i, lits) ==
    IF lits = <<>> THEN i ELSE OptLits(s, OptLit(s, i, Head(lits)), Tail(lits))

\* (?:@\w+\s+)? at i, w the end of the \w run after the @
OptAttrEnd(s, i, w) ==
    IF Ch(s, i) = "@" /\ w > i + 1 /\ IsSpaceCh(Ch(s, w)) THEN SkipSpace(s, w) ELSE i

OptAttr(s, i) == OptAttrEnd(s, i, SkipWord(s, i + 1))

\* A declaration pattern
\*   [req\s+] (?:opt\s+)?... [(?:@\w+\s+)?] (head|head)\s+(\w+) [\s*\(]
\* as data: req is "" when the pattern has no required modifier.

\* the position after req\s+, 0 when it is not at i
AfterReq(s, i, pat) ==
    IF pat.req = "" THEN i
    ELSE IF LitAt(s, i, pat.req) /\ IsSpaceCh(Ch(s, i + Len(pat.req)))
         THEN SkipSpace(s, i + Len(pat.req))
         ELSE 0

AfterAttr(s, pat, b) == IF pat.attr THEN OptAttr(s, b) ELSE b

AfterOpts(s, pat, a) == IF a = 0 THEN 0 ELSE AfterAttr(s, pat, OptLits(s, a, pat.opts))

\* the alternative of (head|head) found at c, "" if none
HeadAt(s, c, heads) ==
    IF \E h \in heads : LitAt(s, c, h) THEN CHOOSE h \in heads : LitAt(s, c, h) ELSE ""

\* q: the position after the \s* that follows the name
DeclParen(s, i, pat, h, n, e, q) ==
    IF pat.paren /\ Ch(s, q) # "(" THEN NoMatch
    ELSE [ok |-> TRUE,
          group0 |-> SubSeq(s, i, IF pat.paren THEN q ELSE e - 1),
          head |-> h,
          name |-> SubSeq(s, n, e - 1)]

\* n..e-1: the name (\w+)
DeclEnd(s, i, pat, h, n, e) ==
    IF e = n THEN NoMatch ELSE DeclParen(s, i, pat, h, n, e, SkipSpace(s, e))

\* m..n-1: the \s+ after the head
DeclWord(s, i, pat, h, m, n) ==
    IF n = m THEN NoMatch ELSE DeclEnd(s, i, pat, h, n, SkipWord(s, n))

DeclName(s, i, pat, c, h) ==
    IF h = "" THEN NoMatch ELSE DeclWord(s, i, pat, h, c + Len(h), SkipSpace(s, c + Len(h)))

\* c: the position after the modifiers
DeclHead(s, i, pat, c) ==
    IF c = 0 THEN NoMatch ELSE DeclName(s, i, pat, c, HeadAt(s, c, pat.heads))

\* pattern.match at position i
DeclAt(s, i, pat) == DeclHead(s, i, pat, AfterOpts(s, pat, AfterReq(s, i, pat)))

DeclAtOrNone(line, pat, i) == IF i = 0 THEN NoMatch ELSE DeclAt(line, i, pat)

\* re.search(pattern, line)
DeclSearch(line, pat) ==
    DeclAtOrNone(line, pat, Min0({i \in 1..Len(line) : DeclAt(line, i, pat).ok}))

\* for pattern in patterns: m = re.search(pattern, line); if m: ...; break
RECURSIVE FirstPattern(_, _)
MatchOrNext(m, line, rest) == IF m.ok THEN m ELSE FirstPattern(line, rest)

FirstPattern(line, pats) ==
    IF pats = <<>> THEN NoMatch
    ELSE MatchOrNext(DeclSearch(line, Head(pats)), line, Tail(pats))

func_patterns ==
    << [req |-> "", opts |-> <<"public", "static">>, attr |-> TRUE,
        heads |-> {"func"}, paren |-> TRUE],
       [req |-> "private", opts |-> <<>>, attr |-> FALSE,
        heads |-> {"func"}, paren |-> TRUE],
       [req |-> "fileprivate", opts |-> <<>>, attr |-> FALSE,
        heads |-> {"func"}, paren |-> TRUE] >>

prop_patterns ==
    << [req |-> "", opts |-> <<"public", "private", "static">>, attr |-> TRUE,
        heads |-> {"let", "var"}, paren |-> FALSE],
       [req |-> "private", opts |-> <<>>, attr |-> FALSE,
        heads |-> {"let", "var"}, paren |-> FALSE],
       [req |-> "fileprivate", opts |-> <<>>, attr |-> FALSE,
        heads |-> {"let", "var"}, paren |-> FALSE] >>

type_patterns ==
    << [req |-> "", opts |-> <<"public">>, attr |-> FALSE,
        heads |-> {"class", "struct", "enum"}, paren |-> FALSE],
       [req |-> "private", opts |-> <<>>, attr |-> FALSE,
        heads |-> {"class", "struct", "enum"}, paren |-> FALSE] >>

\* the run of \w from n on, as a match
WordFrom(line, i, n) ==
    IF i = 0 THEN NoMatch ELSE [ok |-> TRUE, name |-> SubSeq(line, n, SkipWord(line, n) - 1)]

\* extension\s+(\w+): n the position after the \s run
ExtName(s, i, n) == n > i + 9 /\ IsWordCh(Ch(s, n))

ExtAt(s, i) == LitAt(s, i, "extension") /\ ExtName(s, i, SkipSpace(s, i + 9))

ExtFrom(line, i) == WordFrom(line, i, SkipSpace(line, i + 9))

ExtSearch(line) == ExtFrom(line, FirstPos(line, ExtAt))

\* init\s*\(
InitAt(s, i) == LitAt(s, i, "init") /\ Ch(s, SkipSpace(s, i + 4)) = "("

InitSearch(line) == FirstPos(line, InitAt) # 0

\* self\.(\w+)\s*= : w the end of the \w run
AssignEnd(s, i, w) == w > i + 5 /\ Ch(s, SkipSpace(s, w)) = "="

AssignAt(s, i) == LitAt(s, i, "self.") /\ AssignEnd(s, i, SkipWord(s, i + 5))

AssignFrom(line, i) == WordFrom(line, i, i + 5)

AssignSearch(line) == AssignFrom(line, FirstPos(line, AssignAt))

\* len(text.split())
SplitCount(text) ==
    Cardinality({i \in 1..Len(text) :
                    ~IsSpaceCh(Ch(text, i)) /\ (i = 1 \/ IsSpaceCh(Ch(text, i - 1)))})

(***************************************************************************)
(* Structural Delta Analyzer: detail records                               *)
(***************************************************************************)

\* first position >= from holding the character c, 0 if none
IndexFrom(s, c, from) == Min0({i \in from..Len(s) : Ch(s, i) = c})

\* (?:\?)? at g
OptQuestion(s, g) == IF Ch(s, g) = "?" THEN g + 1 ELSE g

\* (?:<[^>]+>)? at e, k the first ">" after e + 1
OptGeneric(s, e, k) == IF Ch(s, e) = "<" /\ k > e + 1 THEN k + 1 ELSE e

TypeNameAfterWord(s, e) == OptQuestion(s, OptGeneric(s, e, IndexFrom(s, ">", e + 1)))

\* end (exclusive) of \w+(?:<[^>]+>)?(?:\?)? starting at n
TypeNameEnd(s, n) == TypeNameAfterWord(s, SkipWord(s, n))

\* the type name that starts at n
TypeName(s, n) == SubSeq(s, n, TypeNameEnd(s, n) - 1)

\* :\s*(\w+(?:<[^>]+>)?(?:\?)?)
ColonTypeAt(s, i) == Ch(s, i) = ":" /\ IsWordCh(Ch(s, SkipSpace(s, i + 1)))

\* ->\s*(\w+(?:<[^>]+>)?(?:\?)?)
ArrowTypeAt(s, i) == LitAt(s, i, "->") /\ IsWordCh(Ch(s, SkipSpace(s, i + 2)))

\* =\s*([^,\n]+)
DefaultAt(s, i) == Ch(s, i) = "=" /\ Ch(s, i + 1) \notin {"", ",", "\n"}

\* end (exclusive) of the run of [^,\n] starting at n
RECURSIVE SkipValue(_, _)
SkipValue(s, n) == IF Ch(s, n) \notin {"", ",", "\n"} THEN SkipValue(s, n + 1) ELSE n

\* the group of =\s*([^,\n]+) that starts at b
ValueFrom(s, b) == SubSeq(s, b, SkipValue(s, b) - 1)

\* n: the position after the \s* ; \s* gives a space back when nothing
\* else is left for the group
DefaultStart(s, n) == IF Ch(s, n) \in {"", ",", "\n"} THEN n - 1 ELSE n

\* the group for the "=" at i
DefaultGroup(s, i) == ValueFrom(s, DefaultStart(s, SkipSpace(s, i + 1)))

EmptyDict == <<>>

\* details['type'], t the position of the match
WithType(line, t) ==
    IF t # 0 THEN [type |-> TypeName(line, SkipSpace(line, t + 1))] ELSE EmptyDict

\* details['default'], d the position of the match
WithDefault(details, d, default_val) ==
    IF d # 0 /\ Len(default_val) < 50 THEN ("default" :> default_val) @@ details ELSE details

DefaultValue(line, d) == IF d = 0 THEN "" ELSE Strip(DefaultGroup(line, d))

PropertyDetailsAt(line, t, d) == WithDefault(WithType(line, t), d, DefaultValue(line, d))

extract_property_details(line, prop_name) ==
    PropertyDetailsAt(line, FirstPos(line, ColonTypeAt), FirstPos(line, DefaultAt))

\* \(([^)]+)\)
ParamsAt(s, i) == Ch(s, i) = "(" /\ IndexFrom(s, ")", i + 1) > i + 1

\* text.split(sep), sep one character
RECURSIVE Split(_, _)
SplitAt(text, sep, k) ==
    IF k = 0 THEN <<text>>
    ELSE <<SubSeq(text, 1, k - 1)>> \o Split(SubSeq(text, k + 1, Len(text)), sep)

Split(text, sep) == SplitAt(text, sep, IndexFrom(text, sep, 1))

\* the names of the parameters of a parameter list
RECURSIVE ParamNames(_)
ParamName(param, param_name, rest) ==
    IF Contains(param, ":") /\ param_name # "" /\ ~StartsWith(param_name, "_")
    THEN <<param_name>> \o ParamNames(rest)
    ELSE ParamNames(rest)

ParamOf(param, rest) == ParamName(param, Strip(Split(param, ":")[1]), rest)

ParamNames(parts) ==
    IF parts = <<>> THEN <<>> ELSE ParamOf(Strip(Head(parts)), Tail(parts))

\* the parameter names of the match at p
ParamsOf(line, p) ==
    IF p = 0 THEN <<>>
    ELSE ParamNames(Split(SubSeq(line, p + 1, IndexFrom(line, ")", p + 1) - 1), ","))

WithParams(params) == IF params # <<>> THEN [params |-> params] ELSE EmptyDict

WithReturnType(details, line, r) ==
    IF r # 0
    THEN ("return_type" :> TypeName(line, SkipSpace(line, r + 2))) @@ details
    ELSE details

extract_function_details(line, context_lines) ==
    WithReturnType(WithParams(ParamsOf(line, FirstPos(line, ParamsAt))),
                   line, FirstPos(line, ArrowTypeAt))

(***************************************************************************)
(* Structural Delta Analyzer                                               *)
(***************************************************************************)

\* lines 195-209
EmptyChanges ==
    [functions_added |-> <<>>, functions_modified |-> <<>>,
     properties_added |-> <<>>, properties_modified |-> <<>>,
     classes_added |-> <<>>, structs_added |-> <<>>, enums_added |-> <<>>,
     extensions_added |-> <<>>, initializers_modified |-> <<>>,
     api_changes |-> <<>>, description |-> <<>>,
     property_details |-> EmptyDict, function_details |-> EmptyDict]

\* d[key] = value
DictSet(d, key, value) == (key :> value) @@ d

\* if details: changes[field][name] = details
WithDetails(changes, field, name, details) ==
    IF details # EmptyDict
    THEN [changes EXCEPT ![field] = DictSet(@, name, details)]
    ELSE changes

\* A listing that takes every matched function for a modified one
ListFunctionAsModified(changes, func_name, removed_lines) ==
    [changes EXCEPT !.functions_modified = Append(@, func_name)]

\* lines 228-231
ListFunction(changes, func_name, removed_lines) ==
    IF \E r \in DOMAIN removed_lines :
          Contains(removed_lines[r], func_name) /\ Contains(removed_lines[r], "(")
    THEN [changes EXCEPT !.functions_modified = Append(@, func_name)]
    ELSE [changes EXCEPT !.functions_added = Append(@, func_name)]

\* lines 225-237
FunctionMatched(changes, func_match, line, context_lines, removed_lines) ==
    IF ~func_match.ok THEN changes
    ELSE WithDetails(ListFunction(changes, func_match.name, removed_lines),
                     "function_details", func_match.name,
                     extract_function_details(line, context_lines))

\* added_lines[i:i+5]
Context(added_lines, i) ==
    SubSeq(added_lines, i, IF i + 4 < Len(added_lines) THEN i + 4 ELSE Len(added_lines))

\* the function block of the loop body, lines 217-237
FunctionBlock(changes, added_lines, i, removed_lines) ==
    FunctionMatched(changes, FirstPattern(added_lines[i], func_patterns),
                    added_lines[i], Context(added_lines, i), removed_lines)

\* lines 253-256
ListProperty(changes, prop_name, prop_type, removed_lines) ==
    IF \E r \in DOMAIN removed_lines :
          /\ Contains(removed_lines[r], prop_name)
          /\ (Contains(removed_lines[r], prop_type) \/ Contains(removed_lines[r], "="))
    THEN [changes EXCEPT !.properties_modified = Append(@, prop_name)]
    ELSE [changes EXCEPT !.properties_added = Append(@, prop_name)]

\* line 249
PropName(prop_match) ==
    IF SplitCount(prop_match.group0) > 2 THEN prop_match.name ELSE prop_match.head

\* line 250
PropType(prop_match) == IF prop_match.head \in {"let", "var"} THEN prop_match.head ELSE "var"

\* lines 252-261
PropertyNamed(changes, prop_name, prop_type, line, removed_lines) ==
    WithDetails(ListProperty(changes, prop_name, prop_type, removed_lines),
                "property_details", prop_name,
                extract_property_details(line, prop_name))

PropertyMatched(changes, prop_match, line, removed_lines) ==
    IF ~prop_match.ok THEN changes
    ELSE PropertyNamed(changes, PropName(prop_match), PropType(prop_match), line, removed_lines)

\* the property block, lines 240-262
PropertyBlock(changes, line, removed_lines) ==
    PropertyMatched(changes, FirstPattern(line, prop_patterns), line, removed_lines)

\* lines 272-282
TypeMatched(changes, type_match) ==
    IF ~type_match.ok THEN changes
    ELSE IF type_match.head = "class"
         THEN [changes EXCEPT !.classes_added = Append(@, type_match.name)]
    ELSE IF type_match.head = "struct"
         THEN [changes EXCEPT !.structs_added = Append(@, type_match.name)]
    ELSE IF type_match.head = "enum"
         THEN [changes EXCEPT !.enums_added = Append(@, type_match.name)]
    ELSE changes

\* the type block, lines 265-282
TypeBlock(changes, line) == TypeMatched(changes, FirstPattern(line, type_patterns))

\* lines 286-289
ExtensionMatched(changes, ext_match) ==
    IF ext_match.ok /\ ext_match.name \notin Range(changes.extensions_added)
    THEN [changes EXCEPT !.extensions_added = Append(@, ext_match.name)]
    ELSE changes

\* the extension block, lines 285-289
ExtensionBlock(changes, line) == ExtensionMatched(changes, ExtSearch(line))

\* the initializer block, lines 292-296
InitializerBlock(changes, line, removed_lines) ==
    IF /\ InitSearch(line)
       /\ \E r \in DOMAIN removed_lines :
             Contains(removed_lines[r], "init") /\ Contains(removed_lines[r], "(")
    THEN [changes EXCEPT !.initializers_modified = Append(@, "init")]
    ELSE changes

\* one iteration of "for i, line in enumerate(added_lines)": every block
\* runs on every line; a break leaves only the block's own pattern loop
LineStep(changes, added_lines, i, removed_lines) ==
    InitializerBlock(
        ExtensionBlock(
            TypeBlock(
                PropertyBlock(
                    FunctionBlock(changes, added_lines, i, removed_lines),
                    added_lines[i], removed_lines),
                added_lines[i]),
            added_lines[i]),
        added_lines[i], removed_lines)

\* the first loop, lines 215-296, from the i-th added line on.  changes is
\* the dict of lines 195-209, never empty: reading it here evaluates it
\* line by line.
RECURSIVE DeclarationLoop(_, _, _, _)
DeclarationLoop(changes, added_lines, i, removed_lines) ==
    IF i > Len(added_lines) \/ DOMAIN changes = {} THEN changes
    ELSE DeclarationLoop(LineStep(changes, added_lines, i, removed_lines),
                         added_lines, i + 1, removed_lines)

\* lines 301-304
AssignMatched(changes, assign_match) ==
    IF assign_match.ok /\ assign_match.name \notin Range(changes.properties_modified)
    THEN [changes EXCEPT !.properties_modified = Append(@, assign_match.name)]
    ELSE changes

\* the second loop, lines 299-304: self.<name> = ...
RECURSIVE AssignmentLoop(_, _, _)
AssignmentLoop(changes, added_lines, i) ==
    IF i > Len(added_lines) \/ DOMAIN changes = {} THEN changes
    ELSE AssignmentLoop(AssignMatched(changes, AssignSearch(added_lines[i])),
                        added_lines, i + 1)

\* The pictographs that open the entries of the description, written by
\* name: U+2705, U+1F504, U+2699 U+FE0F, U+1F3A8, U+1F4E6, U+1F527
MarkAdded == "[check] "

MarkModified == "[arrows] "

MarkConfig == "[gear] "

MarkComponent == "[palette] "

MarkManager == "[package] "

MarkService == "[wrench] "

\* lines 318-327 and 329-338: one entry of props_info
PropInfo(property_details, prop) ==
    IF prop \in DOMAIN property_details /\ "type" \in DOMAIN property_details[prop]
          /\ property_details[prop].type # ""
    THEN prop \o " (" \o property_details[prop].type \o ")"
    ELSE prop

PropsInfo(property_details, props) ==
    [k \in DOMAIN props |-> PropInfo(property_details, props[k])]

\* lines 340-349: one entry of funcs_info
FuncInfo(function_details, func) ==
    IF func \in DOMAIN function_details /\ "params" \in DOMAIN function_details[func]
          /\ function_details[func].params # <<>>
    THEN func \o "(" \o Join(Take(function_details[func].params, 3), ", ") \o "...)"
    ELSE func

FuncsInfo(function_details, funcs) ==
    [k \in DOMAIN funcs |-> FuncInfo(function_details, funcs[k])]

\* \w+suffix tried at s: the position after the match, 0 when there is
\* none; the greedy \w+ gives the last place of the run where suffix stands
WordThen(line, s, suffix) ==
    Max0({e + Len(suffix) : e \in {e \in (s + 1)..SkipWord(line, s) : LitAt(line, e, suffix)}})

\* (\w+a|\w+b|...) tried at s: the alternatives in their order
RECURSIVE SuffixEnd(_, _, _)
SuffixEnd(line, s, suffixes) ==
    IF suffixes = <<>> THEN 0
    ELSE IF WordThen(line, s, Head(suffixes)) # 0 THEN WordThen(line, s, Head(suffixes))
    ELSE SuffixEnd(line, s, Tail(suffixes))

SuffixFrom(line, s, suffixes) ==
    IF s = 0 THEN "" ELSE SubSeq(line, s, SuffixEnd(line, s, suffixes) - 1)

\* re.search(r'(\w+a|\w+b|...)', line).group(1), "" when there is no match
SuffixSearch(line, suffixes) ==
    SuffixFrom(line, Min0({s \in 1..Len(line) : SuffixEnd(line, s, suffixes) # 0}), suffixes)

\* (R\w+|Component\w+) tried at s: the position after the match, 0 if none
ComponentEnd(line, s) ==
    IF Ch(line, s) = "R" /\ IsWordCh(Ch(line, s + 1)) THEN SkipWord(line, s + 1)
    ELSE IF LitAt(line, s, "Component") /\ IsWordCh(Ch(line, s + 9))
    THEN SkipWord(line, s + 9)
    ELSE 0

ComponentFrom(line, s) == IF s = 0 THEN "" ELSE SubSeq(line, s, ComponentEnd(line, s) - 1)

\* line 367
ComponentSearch(line) ==
    ComponentFrom(line, Min0({s \in 1..Len(line) : ComponentEnd(line, s) # 0}))

IsMatch(group) == group # ""

\* lines 361-365
config_changes(added_lines) ==
    SelectSeq([k \in DOMAIN added_lines |->
                  IF Contains(added_lines[k], "Configuration")
                        \/ Contains(added_lines[k], "Config")
                        \/ Contains(added_lines[k], "Theme")
                  THEN SuffixSearch(added_lines[k], <<"Config", "Configuration", "Theme">>)
                  ELSE ""],
              IsMatch)

\* lines 367-370
component_changes(added_lines) ==
    SelectSeq([k \in DOMAIN added_lines |->
                  IF Contains(added_lines[k], "Component") \/ Contains(added_lines[k], "View")
                  THEN ComponentSearch(added_lines[k])
                  ELSE ""],
              IsMatch)

\* lines 372-375
manager_changes(added_lines) ==
    SelectSeq([k \in DOMAIN added_lines |->
                  IF Contains(added_lines[k], "Manager")
                  THEN SuffixSearch(added_lines[k], <<"Manager">>)
                  ELSE ""],
              IsMatch)

\* lines 377-380
service_changes(added_lines) ==
    SelectSeq([k \in DOMAIN added_lines |->
                  IF Contains(added_lines[k], "Service")
                  THEN SuffixSearch(added_lines[k], <<"Service">>)
                  ELSE ""],
              IsMatch)

\* the elements of names, each once
RECURSIVE Distinct(_)
AppendNew(list, x) == IF x \in Range(list) THEN list ELSE Append(list, x)

Distinct(names) ==
    IF names = <<>> THEN <<>>
    ELSE AppendNew(Distinct(SubSeq(names, 1, Len(names) - 1)), names[Len(names)])

RemoveAt(xs, k) == SubSeq(xs, 1, k - 1) \o SubSeq(xs, k + 1, Len(xs))

\* the permutation of xs that seed numbers; the seeds 0 .. n!-1 give every
\* permutation of n elements
RECURSIVE Permuted(_, _)
Permuted(xs, seed) ==
    IF xs = <<>> THEN <<>>
    ELSE <<xs[(seed % Len(xs)) + 1]>>
         \o Permuted(RemoveAt(xs, (seed % Len(xs)) + 1), seed \div Len(xs))

\* list(set(names)), lines 383-389: a set of strings is iterated in the
\* order of the hashes of its elements, which the hash seed of the
\* interpreter decides; the seed differs from one interpreter run to the
\* next (PYTHONHASHSEED unset), so the order is any one
ListOfSet(names, hash_seed) == Permuted(Distinct(names), hash_seed)

\* the orders of two sets are not tied to each other: the seed is read in
\* base 24, and the k-th set of a call is ordered by its lowest digit moved
\* on by the digits from the k-th up
SetSeed(hash_seed, k) == (hash_seed % 24) + (hash_seed \div (24 ^ k))

\* the entries of parts whose condition holds
RECURSIVE DescParts(_)
DescParts(parts) ==
    IF parts = <<>> THEN <<>>
    ELSE (IF Head(parts).when THEN <<Head(parts).text>> ELSE <<>>) \o DescParts(Tail(parts))

\* lines 306-389
Description(changes, added_lines, hash_seed) ==
    DescParts(<<
        [when |-> changes.classes_added # <<>>,
         text |-> MarkAdded \o "Clases agregadas: " \o Join(changes.classes_added, ", ")],
        [when |-> changes.structs_added # <<>>,
         text |-> MarkAdded \o "Structs agregados: " \o Join(changes.structs_added, ", ")],
        [when |-> changes.enums_added # <<>>,
         text |-> MarkAdded \o "Enums agregados: " \o Join(changes.enums_added, ", ")],
        [when |-> changes.extensions_added # <<>>,
         text |-> MarkAdded \o "Extensiones agregadas: "
                  \o Join(changes.extensions_added, ", ")],
        [when |-> changes.properties_added # <<>>,
         text |-> MarkAdded \o "Propiedades agregadas: "
                  \o Join(PropsInfo(changes.property_details,
                                    Take(changes.properties_added, 5)), ", ")],
        [when |-> changes.properties_modified # <<>>,
         text |-> MarkModified \o "Propiedades modificadas: "
                  \o Join(PropsInfo(changes.property_details,
                                    Take(changes.properties_modified, 5)), ", ")],
        [when |-> changes.functions_added # <<>>,
         text |-> MarkAdded \o "Funciones agregadas: "
                  \o Join(FuncsInfo(changes.function_details,
                                    Take(changes.functions_added, 5)), ", ")],
        [when |-> changes.functions_modified # <<>>,
         text |-> MarkModified \o "Funciones modificadas: "
                  \o Join(Take(changes.functions_modified, 5), ", ")],
        [when |-> changes.initializers_modified # <<>>,
         text |-> MarkModified \o "Inicializadores modificados"],
        [when |-> config_changes(added_lines) # <<>>,
         text |-> MarkConfig \o "Cambios en configuración: "
                  \o Join(Take(ListOfSet(config_changes(added_lines), hash_seed), 3), ", ")],
        [when |-> component_changes(added_lines) # <<>>,
         text |-> MarkComponent \o "Cambios en componentes: "
                  \o Join(Take(ListOfSet(component_changes(added_lines), SetSeed(hash_seed, 1)), 3), ", ")],
        [when |-> manager_changes(added_lines) # <<>>,
         text |-> MarkManager \o "Cambios en managers: "
                  \o Join(Take(ListOfSet(manager_changes(added_lines), SetSeed(hash_seed, 2)), 3), ", ")],
        [when |-> service_changes(added_lines) # <<>>,
         text |-> MarkService \o "Cambios en services: "
                  \o Join(Take(ListOfSet(service_changes(added_lines), SetSeed(hash_seed, 3)), 3), ", ")]
    >>)

\* line 391
WithDescription(changes, added_lines, hash_seed) ==
    [changes EXCEPT !.description = Description(changes, added_lines, hash_seed)]

\* hash_seed: the hash seed of the interpreter that runs the call
analyze_code_changes(added_lines, removed_lines, hash_seed) ==
    WithDescription(
        AssignmentLoop(DeclarationLoop(EmptyChanges, added_lines, 1, removed_lines),
                       added_lines, 1),
        added_lines, hash_seed)

(***************************************************************************)
(* The environment: version control and the file systems                   *)
(***************************************************************************)

KOTLIN_SDK_PATH == "/Users/angelo/Documents/GitHub/ReachuKotlinSDK"

\* Most commits a log query answers with in this model
MaxCommits == 2

\* n copies of a line
Repeat(line, n) == [i \in 1..n |-> line]

DiffHeader(path) == <<"--- a/" \o path, "+++ b/" \o path, "@@ -1,1 +1,1 @@">>

\* The origin repository: abbreviated commit hash -> what git answers for
\* it; the full hash is the first field of the header.  header
\* is the first line of "git show --stat --format=%H|%an|%ae|%ad|%s",
\* message the answer of "git log -1 --format=%B", files the lines of
\* "git show --name-status" with the lines of "git show <hash> -- <path>"
\* that carry the change (the commit header lines of that answer are
\* indented or begin with a letter, so none of them begins with + or -).
Repo ==
    [a1 |-> [header |-> "a100000000000000000000000000000000000000|Ana|ana@reachu.io|2025-01-02|Add Widget model",
             message |-> "Add Widget model\n\nThree properties",
             files |-> << [line |-> "A\tSources/ReachuCore/Widget.swift",
                           diff |-> DiffHeader("Sources/ReachuCore/Widget.swift") \o
                                    <<"+struct Widget {", "+    let id: String",
                                      "+    var title: String", "+    var count: Int = 0",
                                      "+}">>] >>],
     a2 |-> [header |-> "a200000000000000000000000000000000000000|Ana|ana@reachu.io|2025-01-03|Test helpers",
             message |-> "Test helpers",
             files |-> << [line |-> "M\tTests/ReachuCoreTests/WidgetTests.swift",
                           diff |-> DiffHeader("Tests/ReachuCoreTests/WidgetTests.swift") \o
                                    <<"+public func testWidget() {">>],
                          [line |-> "A\tSources/ReachuCore/Tests/Helper.swift",
                           diff |-> DiffHeader("Sources/ReachuCore/Tests/Helper.swift") \o
                                    <<"+public struct Helper {">>] >>],
     a3 |-> [header |-> "a300000000000000000000000000000000000000|Bo|bo@reachu.io|2025-01-04|Colors | palette",
             message |-> "Colors | palette",
             files |-> << [line |-> "A\tSources/ReachuUI/Color.swift",
                           diff |-> DiffHeader("Sources/ReachuUI/Color.swift") \o
                                    <<"+enum Color {", "+    case red", "+}">>] >>],
     a4 |-> [header |-> "a400000000000000000000000000000000000000|Bo|bo@reachu.io|2025-01-05|Trim client",
             message |-> "Trim client",
             files |-> << [line |-> "M\tSources/ReachuNetwork/Client.swift",
                           diff |-> DiffHeader("Sources/ReachuNetwork/Client.swift") \o
                                    Repeat("-    retries += 1", 80) \o
                                    Repeat("+    attempts = 0", 10)] >>],
     a5 |-> [header |-> "a500000000000000000000000000000000000000|Bo|bo@reachu.io|2025-01-06|Counter state",
             message |-> "Counter state",
             files |-> << [line |-> "M\tSources/ReachuUI/Counter.swift",
                           diff |-> DiffHeader("Sources/ReachuUI/Counter.swift") \o
                                    <<"+@State public var count = 0">>] >>],
     a6 |-> [header |-> "a600000000000000000000000000000000000000|Cy|cy@reachu.io|2025-01-07|Inline widget, foo",
             message |-> "Inline widget, foo",
             files |-> << [line |-> "M\tSources/ReachuCore/Widget.swift",
                           diff |-> DiffHeader("Sources/ReachuCore/Widget.swift") \o
                                    <<"+struct Widget { var id: Int }">>],
                          [line |-> "M\tSources/ReachuCore/Store.swift",
                           diff |-> DiffHeader("Sources/ReachuCore/Store.swift") \o
                                    <<"-    func foo(x: Int) -> Bool {",
                                      "+    func foo(x: Int, y: Int) -> Bool {",
                                      "+        self.count = x">>] >>],
     a7 |-> [header |-> "a700000000000000000000000000000000000000|Cy|cy@reachu.io|2025-01-08|Merge branch",
             message |-> "Merge branch",
             files |-> << >>],
     a8 |-> [header |-> "a800000000000000000000000000000000000000|Cy|cy@reachu.io|2025-01-09|Widget count",
             message |-> "Widget count",
             files |-> << [line |-> "M\tSources/ReachuCore/Widget.swift",
                           diff |-> DiffHeader("Sources/ReachuCore/Widget.swift") \o
                                    <<"+public class Widget {",
                                      "+    public var count: Int = 0">>] >>],
     a9 |-> [header |-> "a900000000000000000000000000000000000000|Di|di@reachu.io|2025-01-10|Banner",
             message |-> "Banner",
             files |-> << [line |-> "A\tSources/ReachuUI/BannerView.swift",
                           diff |-> DiffHeader("Sources/ReachuUI/BannerView.swift") \o
                                    <<"+import SwiftUI", "+struct BannerView: View {">>],
                          [line |-> "D\tSources/ReachuCore/Old.swift",
                           diff |-> DiffHeader("Sources/ReachuCore/Old.swift") \o
                                    <<"-public class Old {">>],
                          [line |-> "M\tSources/ReachuCore/Notes.txt",
                           diff |-> DiffHeader("Sources/ReachuCore/Notes.txt") \o
                                    <<"+public API notes">>],
                          [line |-> "M\tPackage.swift",
                           diff |-> DiffHeader("Package.swift") \o
                                    <<"+public let package = 1">>] >>],
     b1 |-> [header |-> "b100000000000000000000000000000000000000|Di|di@reachu.io|2025-01-11|Shape is Codable",
             message |-> "Shape is Codable",
             files |-> << [line |-> "M\tSources/ReachuCore/Shape.swift",
                           diff |-> DiffHeader("Sources/ReachuCore/Shape.swift") \o
                                    <<"-struct Shape {", "+struct Shape: Codable {">>] >>],
     b2 |-> [header |-> "b200000000000000000000000000000000000000|Di|di@reachu.io|2025-01-12|Add foo",
             message |-> "Add foo",
             files |-> << [line |-> "A\tSources/ReachuCore/Foo.swift",
                           diff |-> DiffHeader("Sources/ReachuCore/Foo.swift") \o
                                    <<"+func foo(x: Int, y: Int) -> Bool {">>] >>],
     b3 |-> [header |-> "b300000000000000000000000000000000000000|Di|di@reachu.io|2025-01-13|Session managers",
             message |-> "Session managers",
             files |-> << [line |-> "M\tSources/ReachuNetwork/Session.swift",
                           diff |-> DiffHeader("Sources/ReachuNetwork/Session.swift") \o
                                    <<"+public let cache = CacheManager()",
                                      "+public let net = NetworkManager()">>] >>],
     b4 |-> [header |-> "b400000000000000000000000000000000000000|Di|di@reachu.io|2025-01-14|Sync once",
             message |-> "Sync once",
             files |-> << [line |-> "M\tSources/ReachuNetwork/Cache.swift",
                           diff |-> DiffHeader("Sources/ReachuNetwork/Cache.swift") \o
                                    <<"-    cache.clear()", "+    cache.removeAll()">>],
                          [line |-> "M\tSources/ReachuNetwork/Api.swift",
                           diff |-> DiffHeader("Sources/ReachuNetwork/Api.swift") \o
                                    <<"-    api.retry()", "-    api.retry()",
                                      "-    api.flush()", "+    api.sync()">>] >>] ]

\* a hash the repository does not hold
UnknownHash == "ff"

Hashes == DOMAIN Repo \cup {UnknownHash}

\* The changed paths of the repository, and a few more paths for the filter
Paths ==
    {"Sources/ReachuCore/Widget.swift", "Sources/ReachuCore/Store.swift",
     "Sources/ReachuCore/Tests/Helper.swift", "Tests/ReachuCoreTests/WidgetTests.swift",
     "Sources/ReachuUI/Color.swift", "Sources/ReachuUI/Counter.swift",
     "Sources/ReachuUI/BannerView.swift", "Sources/ReachuNetwork/Client.swift",
     "Sources/ReachuCore/Old.swift", "Sources/ReachuCore/Notes.txt", "Package.swift",
     "Sources/ReachuDesignSystem/README.md", "Demo/Sources/ReachuUI/Main.swift",
     "Vendor/Sources/ReachuCore/Widget.swift", "Sources/Other/Thing.swift",
     "Sources/ReachuCore/Models/Widget.swift", "Sources/ReachuCore/Shape.swift",
     "Sources/ReachuCore/Foo.swift", "Sources/ReachuNetwork/Session.swift",
     "Sources/ReachuCore/Sources/ReachuUI/Main.swift",
     "Sources/ReachuNetwork/Cache.swift", "Sources/ReachuNetwork/Api.swift", ""}

\* The files of the origin working tree (Old.swift was deleted)
SwiftTree == Paths \ {"Sources/ReachuCore/Old.swift", ""}

CoreDir == KOTLIN_SDK_PATH \o "/src/main/kotlin/io/reachu/core/"

WidgetKt == "data class Widget(val id: String, var title: String, var count: Int = 0)"

StoreKt == "class Store {\n    fun foo(x: Int): Boolean = true\n}"

\* File-system snapshots.  kotlin_project: the destination project
\* directory exists.  walk: destination directory -> what os.walk yields
\* for it, in its order, as (root, files) pairs; a directory that is no key
\* does not exist.  content: file -> its text; a file of walk that is no key
\* of content cannot be read.  git_available: subprocess.run can start git
\* in the origin repository (the executable and the directory are there).
FileSystems ==
    { [kotlin_project |-> FALSE, walk |-> <<>>, content |-> <<>>, swift_tree |-> SwiftTree, git_available |-> TRUE],
      [kotlin_project |-> TRUE, walk |-> <<>>, content |-> <<>>, swift_tree |-> SwiftTree, git_available |-> TRUE],
      [kotlin_project |-> TRUE,
       walk |-> (CoreDir :> << [root |-> CoreDir, files |-> {"Widget.kt", "Store.kt"}] >>),
       content |-> ((CoreDir \o "Widget.kt") :> WidgetKt) @@ ((CoreDir \o "Store.kt") :> StoreKt),
       swift_tree |-> SwiftTree, git_available |-> TRUE],
      [kotlin_project |-> TRUE,
       walk |-> (CoreDir :> << [root |-> CoreDir, files |-> {"Widget.kt"}] >>),
       content |-> <<>>,
       swift_tree |-> SwiftTree, git_available |-> TRUE],
      [kotlin_project |-> TRUE,
       walk |-> (CoreDir :> << [root |-> CoreDir, files |-> {}],
                               [root |-> CoreDir \o "legacy", files |-> {"Widget.kt"}],
                               [root |-> CoreDir \o "models", files |-> {"Widget.kt"}] >>),
       content |-> ((CoreDir \o "legacy/Widget.kt") :> "class Widget")
                   @@ ((CoreDir \o "models/Widget.kt") :> WidgetKt),
       swift_tree |-> SwiftTree, git_available |-> TRUE],
      [kotlin_project |-> FALSE, walk |-> <<>>, content |-> <<>>, swift_tree |-> SwiftTree,
       git_available |-> FALSE] }

\* how many hash seeds an interpreter run may draw from
HashSeeds == 2

\* The environment a call runs in: the file systems, git, and hash_seed,
\* the hash seed of the interpreter (see ListOfSet)
Snapshots ==
    {[kotlin_project |-> f.kotlin_project, walk |-> f.walk, content |-> f.content,
      swift_tree |-> f.swift_tree, git_available |-> f.git_available,
      hash_seed |-> hash_seed] : f \in FileSystems, hash_seed \in 0..(HashSeeds - 1)}

\* os.path.exists for a destination file or directory
KotlinExists(snapshot, path) ==
    \/ path \in DOMAIN snapshot.walk
    \/ \E d \in DOMAIN snapshot.walk : \E k \in DOMAIN snapshot.walk[d] :
          \E f \in snapshot.walk[d][k].files :
             path = (IF EndsWith(snapshot.walk[d][k].root, "/")
                     THEN snapshot.walk[d][k].root
                     ELSE snapshot.walk[d][k].root \o "/") \o f

(***************************************************************************)
(* Commit & Diff Extractor                                                 *)
(***************************************************************************)

\* line.split('\t', 1)[1] if '\t' in line else line[2:]
FilePathOf(line) ==
    IF Contains(line, "\t")
    THEN SubSeq(line, IndexFrom(line, "\t", 1) + 1, Len(line))
    ELSE SubSeq(line, 3, Len(line))

\* %H of the commit git knows under the abbreviation name
FullHash(name) == SubSeq(Repo[name].header, 1, 40)

\* the commit a revision names: the abbreviation itself or the full hash;
\* a revision git cannot resolve names itself
RevParse(rev) ==
    IF \E name \in DOMAIN Repo : FullHash(name) = rev
    THEN CHOOSE name \in DOMAIN Repo : FullHash(name) = rev
    ELSE rev

\* run_git_command(['show', '--stat', '--format=...', hash]): "" when git fails
GitShowStat(commit_hash) ==
    IF RevParse(commit_hash) \in DOMAIN Repo THEN Repo[RevParse(commit_hash)].header ELSE ""

\* run_git_command(['log', '-1', '--format=%B', hash])
GitLogMessage(commit_hash) ==
    IF RevParse(commit_hash) \in DOMAIN Repo THEN Repo[RevParse(commit_hash)].message ELSE ""

\* the lines of the files of a commit
FileLines(files) == [k \in DOMAIN files |-> files[k].line]

\* run_git_command(['show', '--name-status', '--format=', hash]), as lines
GitShowNameStatus(commit_hash) ==
    IF RevParse(commit_hash) \in DOMAIN Repo THEN FileLines(Repo[RevParse(commit_hash)].files)
    ELSE <<>>

\* the outcome of a call: the value it returns or the exception it raises
Return(value) == [raised |-> FALSE, value |-> value]

Raise(exc) == [raised |-> TRUE, exc |-> exc]

\* lines 55-68, stdout what git answers: a non-zero exit is caught and gives
\* "" (the Git* operators below); when subprocess.run cannot start git the
\* exception is FileNotFoundError, which no except clause catches
run_git_command(snapshot, stdout) ==
    IF snapshot.git_available THEN Return(stdout) ELSE Raise("FileNotFoundError")

DiffOf(files, k) == IF k = 0 THEN <<>> ELSE files[k].diff

DiffOfPath(files, file_path) ==
    DiffOf(files, Min0({k \in DOMAIN files : FilePathOf(files[k].line) = file_path}))

\* run_git_command(['show', hash, '--', path]), as lines
GitShowFile(commit_hash, file_path) ==
    IF RevParse(commit_hash) \notin DOMAIN Repo THEN <<>>
    ELSE DiffOfPath(Repo[RevParse(commit_hash)].files, file_path)

(***************************************************************************)
(* Change Classifier                                                       *)
(***************************************************************************)

\* line[1:].strip() of every line of lines
StripMarks(lines) == [k \in DOMAIN lines |-> Strip(SubSeq(lines[k], 2, Len(lines[k])))]

IsAddedLine(line) == StartsWith(line, "+") /\ ~StartsWith(line, "+++")

IsRemovedLine(line) ==
    ~IsAddedLine(line) /\ StartsWith(line, "-") /\ ~StartsWith(line, "---")

\* lines 130-134: the added and the removed lines of a diff
AddedLines(diff) == StripMarks(SelectSeq(diff, IsAddedLine))

RemovedLines(diff) == StripMarks(SelectSeq(diff, IsRemovedLine))

\* \b<keyword>\b at position i, re.IGNORECASE
KeywordAt(text, i, keyword) ==
    /\ LitAtNoCase(text, i, keyword)
    /\ WordBoundary(text, i)
    /\ WordBoundary(text, i + Len(keyword))

\* re.search(rf'\b{keyword}\b', text, re.IGNORECASE)
KeywordSearch(text, keyword) ==
    \E i \in 1..(Len(text) - Len(keyword) + 1) : KeywordAt(text, i, keyword)

\* [keyword for keyword in keywords if re.search(...)]
KeywordsFound(keywords, text) ==
    SelectSeq(keywords, LAMBDA keyword : KeywordSearch(text, keyword))

\* lines 157-169
ChangeType(added_lines, removed_lines) ==
    IF \E k \in DOMAIN added_lines : ContainsLower(added_lines[k], "public")
    THEN "api_change"
    ELSE IF \E k \in DOMAIN added_lines :
                ContainsLower(added_lines[k], "func") \/ ContainsLower(added_lines[k], "function")
    THEN "functionality_added"
    ELSE IF \E k \in DOMAIN added_lines :
                ContainsLower(added_lines[k], "struct") \/ ContainsLower(added_lines[k], "class")
    THEN "model_added"
    ELSE IF Len(removed_lines) > Len(added_lines) * 2 THEN "refactor"
    ELSE IF Len(added_lines) > Len(removed_lines) * 2 THEN "feature_added"
    ELSE "modification"

\* a verdict that also takes a tie of the two keyword counts as relevant
IsRelevantOnTie(relevant_keywords_found, irrelevant_keywords_found) ==
    Len(relevant_keywords_found) >= Len(irrelevant_keywords_found)

\* lines 153-154
IsRelevant(relevant_keywords_found, irrelevant_keywords_found) ==
    Len(relevant_keywords_found) > Len(irrelevant_keywords_found)

\* lines 171-181
FileVerdict(added_lines, removed_lines, relevant_keywords_found, irrelevant_keywords_found, hash_seed) ==
    [relevant |-> IsRelevant(relevant_keywords_found, irrelevant_keywords_found),
     reason |-> <<"Keywords relevantes", relevant_keywords_found,
                  "Irrelevantes", irrelevant_keywords_found>>,
     change_type |-> ChangeType(added_lines, removed_lines),
     added_lines |-> Len(added_lines),
     removed_lines |-> Len(removed_lines),
     relevant_keywords |-> relevant_keywords_found,
     irrelevant_keywords |-> irrelevant_keywords_found,
     code_changes |-> analyze_code_changes(added_lines, removed_lines, hash_seed)]

\* lines 140-148
ScanKeywords(added_lines, removed_lines, all_changes, hash_seed) ==
    FileVerdict(added_lines, removed_lines,
                KeywordsFound(KOTLIN_RELEVANT_KEYWORDS, all_changes),
                KeywordsFound(KOTLIN_IRRELEVANT_KEYWORDS, all_changes), hash_seed)

AnalyzeLines(added_lines, removed_lines, hash_seed) ==
    ScanKeywords(added_lines, removed_lines, Join(added_lines \o removed_lines, "\n"),
                 hash_seed)

\* lines 120-134
AnalyzeDiff(diff_output, hash_seed) ==
    IF diff_output = <<>>
    THEN [relevant |-> FALSE, reason |-> "No hay cambios en este commit"]
    ELSE AnalyzeLines(AddedLines(diff_output), RemovedLines(diff_output), hash_seed)

\* lines 118-181, diff_output the outcome of the git query
DiffAnswered(diff_output, hash_seed) ==
    IF diff_output.raised THEN diff_output
    ELSE Return(AnalyzeDiff(diff_output.value, hash_seed))

\* a guard that takes every path for a Swift file of the working tree
IsSwiftSourceUnchecked(snapshot, file_path) == TRUE

\* lines 109-111: os.path.exists(full_path) and file_path.endswith('.swift')
IsSwiftSource(snapshot, file_path) ==
    file_path \in snapshot.swift_tree /\ EndsWith(file_path, ".swift")

analyze_file_changes(snapshot, file_path, commit_hash) ==
    IF ~IsSwiftSource(snapshot, file_path)
    THEN Return([relevant |-> FALSE, reason |-> "Archivo no existe o no es Swift"])
    ELSE DiffAnswered(run_git_command(snapshot, GitShowFile(commit_hash, file_path)),
                      snapshot.hash_seed)

(***************************************************************************)
(* Cross-Codebase Path Mapper                                              *)
(***************************************************************************)

\* Python's None, where a path is expected
None == "<None>"

\* text.replace(old, new)
RECURSIVE Replace(_, _, _)
ReplaceAt(text, old, new, k) ==
    IF k = 0 THEN text
    ELSE SubSeq(text, 1, k - 1) \o new
         \o Replace(SubSeq(text, k + Len(old), Len(text)), old, new)

Replace(text, old, new) ==
    ReplaceAt(text, old, new, Min0({i \in 1..(Len(text) - Len(old) + 1) : LitAt(text, i, old)}))

\* os.path.basename(path)
Basename(path) ==
    SubSeq(path, Max0({i \in 1..Len(path) : Ch(path, i) = "/"}) + 1, Len(path))

\* os.path.join(a, b) for a relative b
PathJoin(a, b) == IF EndsWith(a, "/") THEN a \o b ELSE a \o "/" \o b

path_mappings ==
    << <<"Sources/ReachuCore/", "src/main/kotlin/io/reachu/core/">>,
       <<"Sources/ReachuUI/", "src/main/kotlin/io/reachu/ui/">>,
       <<"Sources/ReachuDesignSystem/", "src/main/kotlin/io/reachu/design/">>,
       <<"Sources/ReachuNetwork/", "src/main/kotlin/io/reachu/network/">> >>

\* os.path.join(root, kotlin_filename) for the k-th root of the walk
WalkHit(walk, kotlin_filename, k) ==
    IF k = 0 THEN None ELSE PathJoin(walk[k].root, kotlin_filename)

\* variant of WalkFind that takes the last root of the walk that lists the file
WalkFindLast(walk, kotlin_filename) ==
    WalkHit(walk, kotlin_filename, Max0({k \in DOMAIN walk : kotlin_filename \in walk[k].files}))

\* lines 588-590: the first root of the walk that lists the file
WalkFind(walk, kotlin_filename) ==
    WalkHit(walk, kotlin_filename, Min0({k \in DOMAIN walk : kotlin_filename \in walk[k].files}))

\* variant of SearchDirectory that does not look at the listing
SearchDirectoryBlind(snapshot, kotlin_dir, kotlin_filename) ==
    IF kotlin_dir \in DOMAIN snapshot.walk
    THEN PathJoin(kotlin_dir, kotlin_filename)
    ELSE None

\* lines 585-590
SearchDirectory(snapshot, kotlin_dir, kotlin_filename) ==
    IF kotlin_dir \in DOMAIN snapshot.walk
    THEN WalkFind(snapshot.walk[kotlin_dir], kotlin_filename)
    ELSE None

\* lines 572-575
KotlinFilename(swift_path, swift_prefix) ==
    Replace(Basename(Replace(swift_path, swift_prefix, "")), ".swift", ".kt")

\* The loop gives the path it returns and what it has asked the file
\* system: in tested the paths given to os.path.exists at line 581, in
\* walked the directories given to os.walk.
RECURSIVE MappingLoop(_, _, _, _, _)
FoundOrNext(snapshot, swift_path, k, found, tested, walked) ==
    IF found # None THEN [kotlin_path |-> found, tested |-> tested, walked |-> walked]
    ELSE MappingLoop(snapshot, swift_path, k + 1, tested, walked)

\* lines 578-590
MapWith(snapshot, swift_path, k, kotlin_dir, kotlin_filename, tested, walked) ==
    IF KotlinExists(snapshot, PathJoin(kotlin_dir, kotlin_filename))
    THEN [kotlin_path |-> PathJoin(kotlin_dir, kotlin_filename),
          tested |-> Append(tested, PathJoin(kotlin_dir, kotlin_filename)),
          walked |-> walked]
    ELSE FoundOrNext(snapshot, swift_path, k,
                     SearchDirectory(snapshot, kotlin_dir, kotlin_filename),
                     Append(tested, PathJoin(kotlin_dir, kotlin_filename)),
                     IF kotlin_dir \in DOMAIN snapshot.walk
                     THEN Append(walked, kotlin_dir) ELSE walked)

\* the loop of lines 569-590 from the k-th mapping on
MappingLoop(snapshot, swift_path, k, tested, walked) ==
    IF k > Len(path_mappings)
    THEN [kotlin_path |-> None, tested |-> tested, walked |-> walked]
    ELSE IF ~Contains(swift_path, path_mappings[k][1])
         THEN MappingLoop(snapshot, swift_path, k + 1, tested, walked)
         ELSE MapWith(snapshot, swift_path, k,
                      PathJoin(KOTLIN_SDK_PATH, path_mappings[k][2]),
                      KotlinFilename(swift_path, path_mappings[k][1]), tested, walked)

map_swift_to_kotlin_path(snapshot, swift_path) ==
    MappingLoop(snapshot, swift_path, 1, <<>>, <<>>).kotlin_path

(***************************************************************************)
(* Implementation-Status Checker                                           *)
(***************************************************************************)

\* words joined by \s+ at position i, re.IGNORECASE: the position after
\* them, 0 when they are not there
RECURSIVE WordsAt(_, _, _)
WordsAt(text, i, words) ==
    IF ~LitAtNoCase(text, i, Head(words)) THEN 0
    ELSE IF Len(words) = 1 THEN i + Len(Head(words))
    ELSE IF ~IsSpaceCh(Ch(text, i + Len(Head(words)))) THEN 0
    ELSE WordsAt(text, SkipSpace(text, i + Len(Head(words))), Tail(words))

\* e: the position after the name, 0 when pattern and name are not at i
KotlinPatternEnd(text, i, pat, e) ==
    /\ (pat.boundary => WordBoundary(text, i))
    /\ e # 0
    /\ IF pat.paren THEN Ch(text, SkipSpace(text, e)) = "(" ELSE WordBoundary(text, e)

\* A destination declaration pattern: [\b] word \s+ ... \s+ <name> then \b
\* or \s*\(
KotlinPatternAt(text, i, pat, name) ==
    KotlinPatternEnd(text, i, pat, WordsAt(text, i, pat.words \o <<name>>))

\* any(re.search(pattern, kotlin_content, re.IGNORECASE) for pattern in patterns)
KotlinFound(kotlin_content, patterns, name) ==
    \E k \in DOMAIN patterns : \E i \in 1..Len(kotlin_content) :
        KotlinPatternAt(kotlin_content, i, patterns[k], name)

property_kotlin_patterns ==
    << [boundary |-> TRUE, words |-> <<"val">>, paren |-> FALSE],
       [boundary |-> TRUE, words |-> <<"var">>, paren |-> FALSE],
       [boundary |-> FALSE, words |-> <<"property">>, paren |-> FALSE] >>

function_kotlin_patterns ==
    << [boundary |-> TRUE, words |-> <<"fun">>, paren |-> TRUE],
       [boundary |-> TRUE, words |-> <<"private", "fun">>, paren |-> TRUE],
       [boundary |-> TRUE, words |-> <<"public", "fun">>, paren |-> TRUE] >>

class_kotlin_patterns ==
    << [boundary |-> TRUE, words |-> <<"class">>, paren |-> FALSE],
       [boundary |-> TRUE, words |-> <<"data", "class">>, paren |-> FALSE],
       [boundary |-> TRUE, words |-> <<"object">>, paren |-> FALSE],
       [boundary |-> TRUE, words |-> <<"sealed", "class">>, paren |-> FALSE] >>

\* [label + x for x in names]
Prefixed(label, names) == [k \in DOMAIN names |-> label \o names[k]]

\* one of the three loops of lines 488-528: the names that are found
\* (want = TRUE) or not found (want = FALSE), labelled
Labelled(names, label, kotlin_content, patterns, want) ==
    Prefixed(label,
             SelectSeq(names, LAMBDA name : KotlinFound(kotlin_content, patterns, name) = want))

\* the entries of the three loops, in the order of the loops
Checked(code_changes, kotlin_content, want) ==
    Labelled(code_changes.properties_added, "propiedad: ", kotlin_content,
             property_kotlin_patterns, want)
    \o Labelled(code_changes.functions_added, "función: ", kotlin_content,
                function_kotlin_patterns, want)
    \o Labelled(code_changes.classes_added, "clase: ", kotlin_content,
                class_kotlin_patterns, want)

\* lines 453-459
InitialKotlinInfo ==
    [needs_implementation |-> TRUE,
     kotlin_file_path |-> None,
     already_implemented |-> <<>>,
     missing_implementation |-> <<>>,
     notes |-> <<>>]

\* line 532
NeedsImplementation(missing) == Len(missing) > 0

\* lines 530-537
KotlinVerdict(kotlin_info, already_implemented, missing) ==
    [kotlin_info EXCEPT
        !.already_implemented = already_implemented,
        !.missing_implementation = missing,
        !.needs_implementation = NeedsImplementation(missing),
        !.notes = @ \o (IF already_implemented # <<>>
                        THEN <<"Ya implementado en Kotlin: "
                               \o Join(Take(already_implemented, 3), ", ")>>
                        ELSE <<>>)
                    \o (IF missing # <<>>
                        THEN <<"Falta implementar en Kotlin: " \o Join(Take(missing, 3), ", ")>>
                        ELSE <<>>)]

\* lines 479-537: the destination file was read
CompareWithKotlin(kotlin_info, kotlin_content, code_changes) ==
    KotlinVerdict(kotlin_info,
                  Checked(code_changes, kotlin_content, TRUE),
                  Checked(code_changes, kotlin_content, FALSE))

\* lines 538-545: no destination file.  bound is the set of local names
\* assigned on the way here: properties_added, functions_added and
\* classes_added are assigned at lines 480-482 only, inside the other
\* branch, so reading them raises.
NoKotlinFile(kotlin_info, swift_file_path, code_changes, bound) ==
    IF ~({"properties_added", "functions_added", "classes_added"} \subseteq bound)
    THEN Raise("UnboundLocalError")
    ELSE Return([kotlin_info EXCEPT
            !.notes = Append(@, "Archivo equivalente no encontrado en Kotlin - necesita implementación completa"),
            !.missing_implementation =
                <<"archivo: " \o Basename(swift_file_path)>>
                \o Prefixed("propiedad: ", Take(code_changes.properties_added, 3))
                \o Prefixed("función: ", Take(code_changes.functions_added, 3))
                \o Prefixed("clase: ", Take(code_changes.classes_added, 3))])

\* lines 469-477: the destination file exists; it is read
ReadKotlinFile(snapshot, kotlin_info, kotlin_path, code_changes) ==
    IF kotlin_path \notin DOMAIN snapshot.content
    THEN Return([kotlin_info EXCEPT
            !.kotlin_file_path = kotlin_path,
            !.notes = Append(@, "Error leyendo archivo Kotlin")])
    ELSE Return(CompareWithKotlin([kotlin_info EXCEPT !.kotlin_file_path = kotlin_path],
                                  snapshot.content[kotlin_path], code_changes))

\* lines 468-547
CheckMapped(snapshot, kotlin_info, swift_file_path, code_changes, kotlin_path) ==
    IF kotlin_path # None /\ KotlinExists(snapshot, kotlin_path)
    THEN ReadKotlinFile(snapshot, kotlin_info, kotlin_path, code_changes)
    ELSE NoKotlinFile(kotlin_info, swift_file_path, code_changes, {})

check_kotlin_implementation(snapshot, swift_file_path, code_changes) ==
    IF ~snapshot.kotlin_project
    THEN Return([InitialKotlinInfo EXCEPT
            !.notes = Append(@, "Proyecto Kotlin no encontrado en la ruta esperada")])
    ELSE CheckMapped(snapshot, InitialKotlinInfo, swift_file_path, code_changes,
                     map_swift_to_kotlin_path(snapshot, swift_file_path))

(***************************************************************************)
(* Commit Verdict Aggregator                                               *)
(***************************************************************************)

\* parts[k] if len(parts) > k else default  (k counted from 0)
PartOr(parts, k, default) == IF Len(parts) > k THEN parts[k + 1] ELSE default

\* lines 628-636
CommitDataOf(commit_hash, parts, full_message, message_lines) ==
    [hash |-> PartOr(parts, 0, commit_hash),
     author |-> PartOr(parts, 1, "unknown"),
     email |-> PartOr(parts, 2, ""),
     date |-> PartOr(parts, 3, ""),
     message |-> message_lines[1],
     message_full |-> full_message,
     message_body |-> IF Len(message_lines) > 1
                      THEN Strip(Join(Tail(message_lines), "\n"))
                      ELSE ""]

\* lines 617, 624
CommitParts(commit_hash, header, full_message) ==
    CommitDataOf(commit_hash,
                 IF Contains(header, "|") THEN Split(header, "|") ELSE <<>>,
                 full_message, Split(full_message, "\n"))

\* lines 615-636
CommitData(commit_hash, commit_info, full_message_output) ==
    CommitParts(commit_hash, Split(commit_info, "\n")[1], Strip(full_message_output))

\* the loop of lines 644-671 from the k-th line of files_output on; acc
\* holds relevant_files and irrelevant_files
RECURSIVE FilesLoop(_, _, _, _, _)

\* lines 656-665
FileChecked(snapshot, commit_hash, lines, k, acc, file_path, file_analysis, kotlin_check) ==
    IF kotlin_check.raised THEN kotlin_check
    ELSE FilesLoop(snapshot, commit_hash, lines, k + 1,
             [acc EXCEPT !.relevant_files = Append(@,
                 [path |-> file_path,
                  status |-> Ch(lines[k], 1),
                  analysis |-> ("kotlin_check" :> kotlin_check.value) @@ file_analysis])])

\* lines 653-671
FileAnalysed(snapshot, commit_hash, lines, k, acc, file_path, file_analysis) ==
    IF file_analysis.relevant
    THEN FileChecked(snapshot, commit_hash, lines, k, acc, file_path, file_analysis,
                     check_kotlin_implementation(snapshot, file_path,
                                                 file_analysis.code_changes))
    ELSE FilesLoop(snapshot, commit_hash, lines, k + 1,
             [acc EXCEPT !.irrelevant_files = Append(@,
                 [path |-> file_path,
                  status |-> Ch(lines[k], 1),
                  reason |-> file_analysis.reason])])

\* line 653: an exception of the file analysis leaves the loop
FileAnswered(snapshot, commit_hash, lines, k, acc, file_path, file_analysis) ==
    IF file_analysis.raised THEN file_analysis
    ELSE FileAnalysed(snapshot, commit_hash, lines, k, acc, file_path, file_analysis.value)

\* lines 645-652
FileLine(snapshot, commit_hash, lines, k, acc, file_path) ==
    IF Strip(lines[k]) = "" \/ ~is_relevant_for_kotlin(file_path)
    THEN FilesLoop(snapshot, commit_hash, lines, k + 1, acc)
    ELSE FileAnswered(snapshot, commit_hash, lines, k, acc, file_path,
                      analyze_file_changes(snapshot, file_path, commit_hash))

FilesLoop(snapshot, commit_hash, lines, k, acc) ==
    IF k > Len(lines) THEN Return(acc)
    ELSE FileLine(snapshot, commit_hash, lines, k, acc, FilePathOf(lines[k]))

\* str(n) for a natural number n, as an f-string writes it
RECURSIVE ToStr(_)
ToStr(n) ==
    IF n < 10 THEN SubSeq("0123456789", n + 1, n + 1)
    ELSE ToStr(n \div 10) \o SubSeq("0123456789", (n % 10) + 1, (n % 10) + 1)

\* how many of relevant_files need implementation
NeedingCount(relevant_files) ==
    Cardinality({k \in DOMAIN relevant_files :
                    relevant_files[k].analysis.kotlin_check.needs_implementation})

\* A commit verdict that asks for a relevant file only, whatever its status
CommitRelevantAnyFile(relevant_files) == Len(relevant_files) > 0

\* lines 673-679
CommitRelevant(relevant_files) ==
    /\ Len(relevant_files) > 0
    /\ \E k \in DOMAIN relevant_files :
          relevant_files[k].analysis.kotlin_check.needs_implementation

\* lines 681-688
CommitResult(commit_data, relevant_files, irrelevant_files) ==
    [relevant |-> CommitRelevant(relevant_files),
     commit |-> commit_data,
     relevant_files |-> relevant_files,
     irrelevant_files |-> irrelevant_files,
     reason |-> ToStr(Len(relevant_files)) \o " archivos relevantes, "
                \o ToStr(Len(irrelevant_files)) \o " irrelevantes"
                \o (IF relevant_files # <<>>
                    THEN " (" \o ToStr(NeedingCount(relevant_files))
                         \o " necesitan implementación)"
                    ELSE "")]

\* lines 615-688, files the outcome of the loop over the changed files
CommitAnalysed(commit_hash, commit_info, files) ==
    IF files.raised THEN files
    ELSE Return(CommitResult(CommitData(commit_hash, commit_info, GitLogMessage(commit_hash)),
                             files.value.relevant_files, files.value.irrelevant_files))

\* variant of CommitFound that fails its caller when git answers nothing
CommitFoundOrRaise(snapshot, commit_hash, commit_info) ==
    IF commit_info = ""
    THEN Raise("ValueError")
    ELSE CommitAnalysed(commit_hash, commit_info,
                        FilesLoop(snapshot, commit_hash, GitShowNameStatus(commit_hash), 1,
                                  [relevant_files |-> <<>>, irrelevant_files |-> <<>>]))

\* lines 609-688, commit_info what git answered
CommitFound(snapshot, commit_hash, commit_info) ==
    IF commit_info = ""
    THEN Return([relevant |-> FALSE, reason |-> "Commit no encontrado"])
    ELSE CommitAnalysed(commit_hash, commit_info,
                        FilesLoop(snapshot, commit_hash, GitShowNameStatus(commit_hash), 1,
                                  [relevant_files |-> <<>>, irrelevant_files |-> <<>>]))

\* line 607 on; the queries of lines 619 and 639 are answered when the
\* one of line 607 was, the snapshot being the same
CommitAnswered(snapshot, commit_hash, commit_info) ==
    IF commit_info.raised THEN commit_info
    ELSE CommitFound(snapshot, commit_hash, commit_info.value)

analyze_commit_for_kotlin(snapshot, commit_hash) ==
    CommitAnswered(snapshot, commit_hash,
                   run_git_command(snapshot, GitShowStat(commit_hash)))

(***************************************************************************)
(* Batch analysis and the calls of the module's functions                  *)
(***************************************************************************)

\* The commits a log query may list
BatchHashes == {"a1", "a3", "a7", "a8", UnknownHash}

\* sequences of distinct elements of S, of length at most n
RECURSIVE DistinctSeqs(_, _)
Extended(S, shorter) ==
    shorter \cup UNION {{Append(q, x) : x \in S \ Range(q)} : q \in shorter}

DistinctSeqs(S, n) == IF n = 0 THEN {<<>>} ELSE Extended(S, DistinctSeqs(S, n - 1))

\* run_git_command(['log', '--since=...', '--pretty=format:%H', '--all']),
\* as lines: what the log may answer
LogOutputs == DistinctSeqs(BatchHashes, MaxCommits)

\* The changes of the repository, as (path, commit, added lines, removed lines)
RepoChanges ==
    UNION {{[file_path |-> FilePathOf(Repo[h].files[k].line),
             commit_hash |-> h,
             added_lines |-> AddedLines(Repo[h].files[k].diff),
             removed_lines |-> RemovedLines(Repo[h].files[k].diff)] :
                k \in DOMAIN Repo[h].files} : h \in DOMAIN Repo}

(***************************************************************************)
(* Time expressions of detect_swift_changes.py                             *)
(***************************************************************************)

\* datetime.now(), as the day number date.toordinal() of the current day:
\* Monday 2025-01-06 and Saturday 2024-03-02
Todays == {739257, 738947}

\* The time expressions a caller passes as since
DateExprs ==
    {"last monday", "Monday", "7 days ago", "2 weeks ago", "2025-01-06",
     "yesterday", "two days ago", "800000 days ago", "3 Days Ago x9"}

\* date.weekday(): Monday is 0
weekday(ordinal) == (ordinal + 6) % 7

\* date.fromordinal(ordinal) in the proleptic Gregorian calendar, from the
\* day of the 400-year era (March-based years)
DayOfEra(ordinal) == (ordinal + 305) % 146097

YearOfEra(doe) ==
    (doe - (doe \div 1460) + (doe \div 36524) - (doe \div 146096)) \div 365

DayOfYear(doe, yoe) == doe - (365 * yoe + (yoe \div 4) - (yoe \div 100))

MonthOf(doy) ==
    IF (5 * doy + 2) \div 153 < 10 THEN (5 * doy + 2) \div 153 + 3
    ELSE (5 * doy + 2) \div 153 - 9

DayOf(doy) == doy - (153 * ((5 * doy + 2) \div 153) + 2) \div 5 + 1

YearOf(ordinal, yoe, month) ==
    yoe + ((ordinal + 305) \div 146097) * 400 + (IF month <= 2 THEN 1 ELSE 0)

fromordinal(ordinal) ==
    [year |-> YearOf(ordinal, YearOfEra(DayOfEra(ordinal)),
                     MonthOf(DayOfYear(DayOfEra(ordinal), YearOfEra(DayOfEra(ordinal))))),
     month |-> MonthOf(DayOfYear(DayOfEra(ordinal), YearOfEra(DayOfEra(ordinal)))),
     day |-> DayOf(DayOfYear(DayOfEra(ordinal), YearOfEra(DayOfEra(ordinal))))]

\* the decimal digits of n, zero-padded to width
RECURSIVE ZeroPad(_, _)
ZeroPad(text, width) == IF Len(text) >= width THEN text ELSE ZeroPad("0" \o text, width)

\* date.strftime("%Y-%m-%d"); the C library does not pad the year
FormatDate(date) ==
    ToStr(date.year) \o "-" \o ZeroPad(ToStr(date.month), 2)
        \o "-" \o ZeroPad(ToStr(date.day), 2)

strftime(ordinal) == FormatDate(fromordinal(ordinal))

\* the maximal run of digits of s that starts at i
RECURSIVE DigitRun(_, _)
DigitRun(s, i) == IF Ch(s, i) \in Digits THEN Ch(s, i) \o DigitRun(s, i + 1) ELSE ""

\* re.search(r'(\d+)', s): group(1) of the first match, "" for no match
FirstNumber(s) == DigitRun(s, Min0({i \in 1..Len(s) : Ch(s, i) \in Digits}))

\* int() of a string of digits
RECURSIVE ToInt(_)
ToInt(digits) ==
    IF digits = "" THEN 0
    ELSE 10 * ToInt(SubSeq(digits, 1, Len(digits) - 1))
         + (CHOOSE d \in 0..9 : ToStr(d) = Ch(digits, Len(digits)))

\* timedelta(days=...) accepts at most this many days
MaxTimedeltaDays == 10 ^ 9 - 1

\* datetime.now() - timedelta(days=days), formatted; dates start at day 1
DateBefore(today, days) ==
    IF days > MaxTimedeltaDays \/ today - days < 1 THEN Raise("OverflowError")
    ELSE Return(strftime(today - days))

\* lines 64-65 and 68-69: .group(1) of no match is an attribute of None
NumberBefore(today, number, days_per_unit) ==
    IF number = "" THEN Raise("AttributeError")
    ELSE DateBefore(today, ToInt(number) * days_per_unit)

\* lines 57-59
days_since_monday(today) == IF weekday(today) % 7 = 0 THEN 7 ELSE weekday(today) % 7

\* detect_swift_changes.py lines 48-73
parse_date_since(date_str, today) ==
    IF ContainsLower(date_str, "last monday") \/ ContainsLower(date_str, "monday")
    THEN Return(strftime(today - days_since_monday(today)))
    ELSE IF ContainsLower(date_str, "days ago")
    THEN NumberBefore(today, FirstNumber(date_str), 1)
    ELSE IF ContainsLower(date_str, "weeks ago")
    THEN NumberBefore(today, FirstNumber(date_str), 7)
    ELSE Return(date_str)

NoCall == [op |-> "none"]

Init ==
    /\ fs \in Snapshots
    /\ pc = "idle"
    /\ call = NoCall
    /\ ret = Return(None)
    /\ queue = <<>>
    /\ relevant_commits = <<>>
    /\ tasks = <<>>
    /\ service_calls = <<>>

\* a call that returns at once
Returns(op, outcome) ==
    /\ call' = op
    /\ ret' = outcome
    /\ pc' = "returned"
    /\ service_calls' = <<>>
    /\ UNCHANGED <<fs, queue, relevant_commits, tasks>>

IsRelevantForKotlin ==
    /\ pc = "idle"
    /\ \E file_path \in Paths :
          Returns([op |-> "is_relevant_for_kotlin", file_path |-> file_path],
                  Return(is_relevant_for_kotlin(file_path)))

AnalyzeCodeChanges ==
    /\ pc = "idle"
    /\ \E c \in RepoChanges :
          Returns([op |-> "analyze_code_changes",
                   added_lines |-> c.added_lines, removed_lines |-> c.removed_lines],
                  Return(analyze_code_changes(c.added_lines, c.removed_lines,
                                              fs.hash_seed)))

AnalyzeFileChanges ==
    /\ pc = "idle"
    /\ \E c \in RepoChanges :
          Returns([op |-> "analyze_file_changes",
                   file_path |-> c.file_path, commit_hash |-> c.commit_hash],
                  analyze_file_changes(fs, c.file_path, c.commit_hash))

CheckKotlinImplementationOf(swift_file_path, code_changes) ==
    Returns([op |-> "check_kotlin_implementation",
             swift_file_path |-> swift_file_path, code_changes |-> code_changes],
            check_kotlin_implementation(fs, swift_file_path, code_changes))

CheckKotlinImplementation ==
    /\ pc = "idle"
    /\ \E c \in RepoChanges :
          CheckKotlinImplementationOf(c.file_path,
                                      analyze_code_changes(c.added_lines, c.removed_lines,
                                                           fs.hash_seed))

MapSwiftToKotlinPath ==
    /\ pc = "idle"
    /\ \E swift_path \in Paths :
          Returns([op |-> "map_swift_to_kotlin_path", swift_path |-> swift_path],
                  Return(map_swift_to_kotlin_path(fs, swift_path)))

AnalyzeCommitForKotlin ==
    /\ pc = "idle"
    /\ \E commit_hash \in Hashes :
          Returns([op |-> "analyze_commit_for_kotlin", commit_hash |-> commit_hash],
                  analyze_commit_for_kotlin(fs, commit_hash))

ParseDateSince ==
    /\ pc = "idle"
    /\ \E date_str \in DateExprs, today \in Todays :
          Returns([op |-> "parse_date_since", date_str |-> date_str, today |-> today],
                  parse_date_since(date_str, today))

\* run_git_command(['log', '--since=...', '--pretty=format:%H|%an|%ae|%ad|%s',
\* '--date=short', '--name-status']) of detect_swift_changes.py, as lines:
\* per commit its header and its changed files, a blank line between commits
RECURSIVE LogLines(_)
LogLines(commit_hashes) ==
    IF commit_hashes = <<>> THEN <<>>
    ELSE <<Repo[Head(commit_hashes)].header>>
         \o GitShowNameStatus(Head(commit_hashes))
         \o (IF Tail(commit_hashes) = <<>> THEN <<>> ELSE <<"">>)
         \o LogLines(Tail(commit_hashes))

\* detect_swift_changes.py lines 100-103 and 121-123; current_commit is <<>>
\* for None and <<c>> for the commit c
CloseCommit(commits, current_commit, current_files) ==
    IF current_commit = <<>> THEN commits
    ELSE Append(commits, [current_commit[1] EXCEPT !.files = current_files])

\* detect_swift_changes.py lines 105-113
NewCommit(parts) ==
    [hash |-> parts[1], author |-> parts[2], email |-> parts[3], date |-> parts[4],
     message |-> parts[5], files |-> <<>>]

\* detect_swift_changes.py line 115
IsStatusLine(line) ==
    StartsWith(line, "A\t") \/ StartsWith(line, "M\t") \/ StartsWith(line, "D\t")
        \/ StartsWith(line, "R")

\* detect_swift_changes.py lines 97-125
RECURSIVE ParseLog(_, _, _, _, _)
ParseLog(lines, k, commits, current_commit, current_files) ==
    IF k > Len(lines) THEN CloseCommit(commits, current_commit, current_files)
    ELSE IF Contains(lines[k], "|") /\ Len(Split(lines[k], "|")) = 5
    THEN ParseLog(lines, k + 1, CloseCommit(commits, current_commit, current_files),
                  <<NewCommit(Split(lines[k], "|"))>>, <<>>)
    ELSE IF IsStatusLine(lines[k])
    THEN ParseLog(lines, k + 1, commits, current_commit,
                  Append(current_files,
                         [status |-> Ch(lines[k], 1), path |-> FilePathOf(lines[k])]))
    ELSE ParseLog(lines, k + 1, commits, current_commit, current_files)

\* detect_swift_changes.py lines 89-125, output the outcome of the log query
LogParsed(output) ==
    IF output.raised THEN output
    ELSE IF output.value = <<>> THEN Return(<<>>)
    ELSE Return(ParseLog(output.value, 1, <<>>, <<>>, <<>>))

\* detect_swift_changes.py lines 76-125, log_lines what the log lists since
\* the parsed date
get_recent_commits(snapshot, since, today, log_lines) ==
    IF parse_date_since(since, today).raised THEN parse_date_since(since, today)
    ELSE LogParsed(run_git_command(snapshot, log_lines))

\* The time expressions the log is asked for: a day, a number of weeks, and
\* one that parse_date_since cannot read
LogSinces == {"yesterday", "2 weeks ago", "two days ago"}

GetRecentCommits ==
    /\ pc = "idle"
    /\ \E commit_hashes \in DistinctSeqs(BatchHashes \ {UnknownHash}, MaxCommits),
          since \in LogSinces, today \in Todays :
          Returns([op |-> "get_recent_commits", since |-> since, today |-> today,
                   commit_hashes |-> commit_hashes],
                  get_recent_commits(fs, since, today, LogLines(commit_hashes)))

\* get_recent_commits_analysis, lines 702-714: the log query
\* lines 709-714, commits_output the outcome of the log query
LogAnswered(commits_output) ==
    /\ ret' = IF commits_output.raised THEN commits_output
              ELSE IF commits_output.value = <<>> THEN Return(<<>>) ELSE ret
    /\ pc' = IF commits_output.raised \/ commits_output.value = <<>>
             THEN "returned" ELSE "loop"
    /\ queue' = IF commits_output.raised THEN <<>> ELSE commits_output.value
    /\ relevant_commits' = <<>>
    /\ UNCHANGED <<fs, tasks, service_calls>>

GetRecentCommitsAnalysis ==
    /\ pc = "idle"
    /\ \E commit_hashes \in LogOutputs :
          /\ call' = [op |-> "get_recent_commits_analysis", commit_hashes |-> commit_hashes]
          /\ LogAnswered(run_git_command(fs, commit_hashes))

\* lines 720-723; an exception of the analysis leaves the function
CommitStep(analysis) ==
    /\ ret' = IF analysis.raised THEN analysis ELSE ret
    /\ pc' = IF analysis.raised THEN "returned" ELSE pc
    /\ queue' = IF analysis.raised THEN queue ELSE Tail(queue)
    /\ relevant_commits' = IF ~analysis.raised /\ analysis.value.relevant
                           THEN Append(relevant_commits, analysis.value)
                           ELSE relevant_commits

\* one iteration of the loop of lines 716-723
AnalyzeNextCommit ==
    /\ pc = "loop"
    /\ queue # <<>>
    /\ IF Strip(Head(queue)) = ""
       THEN queue' = Tail(queue) /\ UNCHANGED <<pc, ret, relevant_commits>>
       ELSE CommitStep(analyze_commit_for_kotlin(fs, Strip(Head(queue))))
    /\ UNCHANGED <<fs, call, tasks, service_calls>>

\* line 725
ReturnRelevantCommits ==
    /\ pc = "loop"
    /\ queue = <<>>
    /\ ret' = Return(relevant_commits)
    /\ pc' = "returned"
    /\ UNCHANGED <<fs, call, queue, relevant_commits, tasks, service_calls>>

\* dict.get(key, default)
Get(dict, key, default) == IF key \in DOMAIN dict THEN dict[key] ELSE default

\* lines 752-764
TaskForModification(file_analysis) ==
    IF Get(file_analysis, "added_lines", 0) + Get(file_analysis, "removed_lines", 0) > 50
    THEN <<TRUE, "Cambios significativos (>50 líneas)">>
    ELSE IF Get(file_analysis, "relevant_keywords", <<>>) # <<>>
    THEN <<TRUE, "Modificación con keywords relevantes">>
    ELSE <<FALSE, "Modificación menor, revisar manualmente">>

\* lines 739-766
TaskFor(file_analysis, change_type) ==
    IF change_type \in {"api_change", "functionality_added", "model_added", "feature_added"}
    THEN <<TRUE, "Cambio de tipo '" \o change_type \o "' requiere implementación en Kotlin">>
    ELSE IF change_type = "refactor"
    THEN (IF Get(file_analysis, "relevant_keywords", <<>>) # <<>>
          THEN <<TRUE, "Refactor con cambios en API pública">>
          ELSE <<FALSE, "Refactor interno, no requiere cambios en Kotlin">>)
    ELSE IF change_type = "modification" THEN TaskForModification(file_analysis)
    ELSE <<FALSE, "Tipo de cambio desconocido">>

\* lines 728-766; the result is the tuple (create a task, reason)
should_create_kotlin_task(file_analysis, commit_analysis) ==
    IF ~Get(file_analysis, "relevant", FALSE)
    THEN <<FALSE, Get(file_analysis, "reason", "No relevante para Kotlin")>>
    ELSE TaskFor(file_analysis, Get(file_analysis, "change_type", "unknown"))

\* the verdict of a file is handed to should_create_kotlin_task
TaskDecided(file_analysis) ==
    /\ ~file_analysis.raised
    /\ Returns([op |-> "should_create_kotlin_task", file_analysis |-> file_analysis.value],
               Return(should_create_kotlin_task(file_analysis.value, None)))

ShouldCreateKotlinTask ==
    /\ pc = "idle"
    /\ \E c \in RepoChanges :
          TaskDecided(analyze_file_changes(fs, c.file_path, c.commit_hash))

(***************************************************************************)
(* Smart cards of server/tools/smart_card.py.  service_calls holds the     *)
(* payloads the current call has posted with service.create_card.          *)
(***************************************************************************)

\* how many commits the log of a card batch lists at most
MaxPosts == 2

\* bool(s) of an optional string
Truthy(s) == s # None /\ s # ""

\* get_recent_commits_analysis as a function: lines 716-725
RECURSIVE RelevantCommits(_, _, _, _)

\* lines 720-723
CommitKept(snapshot, commit_hashes, k, kept, analysis) ==
    IF analysis.raised THEN analysis
    ELSE RelevantCommits(snapshot, commit_hashes, k + 1,
                         IF analysis.value.relevant THEN Append(kept, analysis.value)
                         ELSE kept)

RelevantCommits(snapshot, commit_hashes, k, kept) ==
    IF k > Len(commit_hashes) THEN Return(kept)
    ELSE IF Strip(commit_hashes[k]) = ""
    THEN RelevantCommits(snapshot, commit_hashes, k + 1, kept)
    ELSE CommitKept(snapshot, commit_hashes, k, kept,
                    analyze_commit_for_kotlin(snapshot, Strip(commit_hashes[k])))

\* lines 702-725, commits_output the outcome of the log query
get_recent_commits_analysis(snapshot, commits_output) ==
    IF commits_output.raised THEN commits_output
    ELSE IF commits_output.value = <<>> THEN Return(<<>>)
    ELSE RelevantCommits(snapshot, commits_output.value, 1, <<>>)

\* smart_card.py lines 66-70
CardName(commit_message) ==
    "Kotlin -> " \o (IF Len(commit_message) > 60
                     THEN SubSeq(commit_message, 1, 57) \o "..."
                     ELSE commit_message)

\* the grave accent, written as an apostrophe (a TLA+ string cannot hold it)
Backtick == "'"

\* lines 73-79: the head of the description; the parts of lines 81-189
\* (files, counts, suggested tasks) follow it in the card and are left out
CardDescription(commit_hash, commit_data) ==
    Join(<<"**Commit:** " \o Backtick \o Take(commit_hash, 8) \o Backtick,
           "**Autor:** " \o commit_data.author,
           "**Fecha:** " \o commit_data.date,
           "",
           "**Mensaje:** " \o commit_data.message>>, "\n")

\* lines 193-208; suggested_members is the answer of
\* suggest_members_for_commit, which gives [] when anything fails
FinalMembers(args) ==
    IF ~Truthy(args.idMembers) /\ args.auto_suggest_members /\ args.suggested_members # <<>>
    THEN Join(args.suggested_members, ",")
    ELSE args.idMembers

\* lines 211-220
Payload(args, card_name, description, final_members) ==
    ("idList" :> args.idList) @@ ("name" :> card_name) @@ ("desc" :> description)
        @@ (IF Truthy(final_members) THEN "idMembers" :> final_members ELSE <<>>)
        @@ (IF Truthy(args.idLabels) THEN "idLabels" :> args.idLabels ELSE <<>>)

\* service.create_card(**payload), lines 223-226: Trello answers with the
\* card or the request fails
CardPosted(payload, answer) ==
    [outcome |-> IF answer.ok THEN Return(("id" :> answer.id) @@ payload)
                 ELSE Raise("HTTPStatusError"),
     posted |-> <<payload>>]

\* lines 59-226, analysis the value of the commit analysis
CardFor(commit_hash, args, answer, analysis) ==
    IF ~analysis.relevant THEN [outcome |-> Raise("ValueError"), posted |-> <<>>]
    ELSE CardPosted(Payload(args, CardName(analysis.commit.message),
                            CardDescription(commit_hash, analysis.commit),
                            FinalMembers(args)),
                    answer)

\* lines 56-232: an exception is reported and raised again
CardAnalysed(commit_hash, args, answer, analysis) ==
    IF analysis.raised THEN [outcome |-> analysis, posted |-> <<>>]
    ELSE CardFor(commit_hash, args, answer, analysis.value)

\* the outcome of the call and the payloads it posted
create_smart_card_from_commit(snapshot, commit_hash, args, answer) ==
    CardAnalysed(commit_hash, args, answer, analyze_commit_for_kotlin(snapshot, commit_hash))

\* what Trello answers to the n-th post of a call
AnswerOf(n, failures) == [ok |-> n \notin failures, id |-> "card" \o ToStr(n)]

\* the loop of lines 274-296; acc holds created_cards and the payloads posted
RECURSIVE CardsLoop(_, _, _, _, _, _)

\* lines 280-296: any exception of the creation is logged and the loop goes on
CardStep(snapshot, commits, k, args, failures, acc, card) ==
    CardsLoop(snapshot, commits, k + 1, args, failures,
              [created_cards |-> IF card.outcome.raised THEN acc.created_cards
                                 ELSE Append(acc.created_cards, card.outcome.value),
               posted |-> acc.posted \o card.posted])

CardsLoop(snapshot, commits, k, args, failures, acc) ==
    IF k > Len(commits) THEN acc
    ELSE IF commits[k].commit.hash = ""
    THEN CardsLoop(snapshot, commits, k + 1, args, failures, acc)
    ELSE CardStep(snapshot, commits, k, args, failures, acc,
                  create_smart_card_from_commit(snapshot, commits[k].commit.hash, args,
                                                AnswerOf(Len(acc.posted) + 1, failures)))

\* line 298
CardsCreated(acc) == [outcome |-> Return(acc.created_cards), posted |-> acc.posted]

\* lines 262-304, commits the outcome of get_recent_commits_analysis
CardsFor(snapshot, args, dry_run, failures, commits) ==
    IF commits.raised THEN [outcome |-> commits, posted |-> <<>>]
    ELSE IF commits.value = <<>> \/ dry_run THEN [outcome |-> Return(<<>>), posted |-> <<>>]
    ELSE CardsCreated(CardsLoop(snapshot, commits.value, 1, args, failures,
                                [created_cards |-> <<>>, posted |-> <<>>]))

create_smart_cards_from_recent_commits(snapshot, commits_output, args, dry_run, failures) ==
    CardsFor(snapshot, args, dry_run, failures,
             get_recent_commits_analysis(snapshot, commits_output))

\* The arguments of a card call
CardArgs ==
    {[idList |-> "list1", idMembers |-> idMembers, idLabels |-> None,
      auto_suggest_members |-> TRUE, suggested_members |-> suggested_members] :
        idMembers \in {None, "m9"}, suggested_members \in {<<>>, <<"m1", "m2">>}}

\* a call of the card tools returns; posted is what it sent to the service
CardReturns(op, result) ==
    /\ call' = op
    /\ ret' = result.outcome
    /\ service_calls' = result.posted
    /\ pc' = "returned"
    /\ UNCHANGED <<fs, queue, relevant_commits, tasks>>

CreateSmartCardFromCommit ==
    /\ pc = "idle"
    /\ \E commit_hash \in BatchHashes, args \in CardArgs, ok \in BOOLEAN :
          CardReturns([op |-> "create_smart_card_from_commit", commit_hash |-> commit_hash,
                       args |-> args, failures |-> IF ok THEN {} ELSE {1}],
                      create_smart_card_from_commit(fs, commit_hash, args,
                                                    AnswerOf(1, IF ok THEN {} ELSE {1})))

\* The commits the log of a card batch lists
CardHashes == {"a1", "a8", "a3"}

\* The posts of a batch Trello refuses: none or one of them
PostFailures == {{}} \cup {{n} : n \in 1..MaxPosts}

\* a dry run posts nothing, so no post of it can fail
CreateSmartCardsFromRecentCommits ==
    /\ pc = "idle"
    /\ \E commit_hashes \in DistinctSeqs(CardHashes, MaxPosts), dry_run \in BOOLEAN,
          failures \in PostFailures :
          /\ dry_run => failures = {}
          /\ CardReturns([op |-> "create_smart_cards_from_recent_commits",
                       commit_hashes |-> commit_hashes, dry_run |-> dry_run,
                       failures |-> failures],
                      create_smart_cards_from_recent_commits(
                          fs, run_git_command(fs, commit_hashes),
                          CHOOSE args \in CardArgs :
                              args.idMembers = None /\ args.suggested_members = <<>>,
                          dry_run, failures))

(***************************************************************************)
(* The review of the cards of a list, src/server/tools/card_review.py      *)
(***************************************************************************)

\* [a-f0-9]
HexDigits == Digits \cup {"a", "b", "c", "d", "e", "f"}

\* [a-f0-9] under re.IGNORECASE
HexDigitsNoCase == HexDigits \cup {"A", "B", "C", "D", "E", "F"}

\* \s
SpaceChars == {" ", "\t", "\n"}

\* the first position from i on whose character is not in chars: where a
\* greedy run of chars that starts at i ends
RECURSIVE RunEnd(_, _, _)
RunEnd(s, i, chars) == IF i <= Len(s) /\ Ch(s, i) \in chars THEN RunEnd(s, i + 1, chars) ELSE i

\* group 1 of \*\*Commit:\*\*\s*`([a-f0-9]{8,40})` matched at tick, the
\* position after the spaces; stop is where the run of hash digits ends
MarkedGroup(desc, tick, stop) ==
    IF LitAt(desc, tick, Backtick) /\ stop - tick - 1 \in 8..40 /\ LitAt(desc, stop, Backtick)
    THEN SubSeq(desc, tick + 1, stop - 1)
    ELSE None

\* the pattern of line 40 matched at position i, None if it does not match
MarkedHashAt(desc, i) ==
    IF ~LitAt(desc, i, "**Commit:**") THEN None
    ELSE MarkedGroup(desc, RunEnd(desc, i + 11, SpaceChars),
                     RunEnd(desc, RunEnd(desc, i + 11, SpaceChars) + 1, HexDigits))

\* group 1 of Commit[:\s]+([a-f0-9]{8,40}): at most 40 digits of the run
PlainGroup(desc, i, start, stop) ==
    IF start > i + 6 /\ stop - start >= 8
    THEN SubSeq(desc, start, IF stop - start > 40 THEN start + 39 ELSE stop - 1)
    ELSE None

\* the pattern of line 47 matched at position i, None if it does not match
PlainHashAt(desc, i) ==
    IF ~LitAtNoCase(desc, i, "commit") THEN None
    ELSE PlainGroup(desc, i, RunEnd(desc, i + 6, SpaceChars \cup {":"}),
                    RunEnd(desc, RunEnd(desc, i + 6, SpaceChars \cup {":"}), HexDigitsNoCase))

\* re.search(pattern, card.desc): the leftmost match
MarkedHash(desc) ==
    IF \A i \in 1..Len(desc) : MarkedHashAt(desc, i) = None THEN None
    ELSE MarkedHashAt(desc, Min0({i \in 1..Len(desc) : MarkedHashAt(desc, i) # None}))

\* re.search(pattern2, card.desc, re.IGNORECASE)
PlainHash(desc) ==
    IF \A i \in 1..Len(desc) : PlainHashAt(desc, i) = None THEN None
    ELSE PlainHashAt(desc, Min0({i \in 1..Len(desc) : PlainHashAt(desc, i) # None}))

extract_commit_hash_from_card(card) ==
    IF ~Truthy(card.desc) THEN None
    ELSE IF MarkedHash(card.desc) # None THEN MarkedHash(card.desc)
    ELSE PlainHash(card.desc)

\* lines 107-112: the analyses under their short and their full hash
RECURSIVE CommitsByHash(_, _, _)
CommitsByHash(commits, k, commits_by_hash) ==
    IF k > Len(commits) THEN commits_by_hash
    ELSE IF commits[k].commit.hash = ""
    THEN CommitsByHash(commits, k + 1, commits_by_hash)
    ELSE CommitsByHash(commits, k + 1,
                       DictSet(DictSet(commits_by_hash, Take(commits[k].commit.hash, 8),
                                       commits[k]),
                               commits[k].commit.hash, commits[k]))

\* line 127
HashShort(commit_hash) == IF Len(commit_hash) >= 8 THEN SubSeq(commit_hash, 1, 8) ELSE commit_hash

\* line 128
HashFull(commit_hash) == IF Len(commit_hash) = 40 THEN commit_hash ELSE None

\* every card that names a commit is reported as having recent changes
HasRecentChangesAlways(commit_hash, commits_by_hash) == TRUE

\* line 135
HasRecentChanges(commit_hash, commits_by_hash) ==
    \/ HashShort(commit_hash) \in DOMAIN commits_by_hash
    \/ (HashFull(commit_hash) # None /\ HashFull(commit_hash) \in DOMAIN commits_by_hash)

\* lines 130-132
CommitsWithCards(commits_with_cards, commit_hash) ==
    commits_with_cards \cup {HashShort(commit_hash)}
        \cup (IF HashFull(commit_hash) # None THEN {HashFull(commit_hash)} ELSE {})

\* the entry a card gets in one of the two lists
CardEntry(card, commit_hash, reason) ==
    [card |-> card, commit_hash |-> commit_hash, reason |-> reason]

\* lines 123-168 for one card; acc holds the two lists and commits_with_cards.
\* The analysis found at line 138 is a dictionary with keys, so the test of
\* line 140 holds and lines 150-155 are never run
CardReviewed(acc, card, commit_hash, commits_by_hash) ==
    IF ~Truthy(commit_hash)
    THEN [acc EXCEPT !.cards_up_to_date =
              Append(@, CardEntry(card, None, "Tarjeta sin commit asociado"))]
    ELSE IF ~HasRecentChanges(commit_hash, commits_by_hash)
    THEN [acc EXCEPT !.commits_with_cards = CommitsWithCards(@, commit_hash),
                     !.cards_up_to_date =
              Append(@, CardEntry(card, commit_hash, "Commit no tiene cambios recientes"))]
    ELSE [acc EXCEPT !.commits_with_cards = CommitsWithCards(@, commit_hash),
                     !.cards_to_update =
              Append(@, CardEntry(card, commit_hash,
                                  "Commit tiene cambios recientes relacionados"))]

\* the loop of lines 122-168
RECURSIVE ReviewLoop(_, _, _, _)
ReviewLoop(cards, k, commits_by_hash, acc) ==
    IF k > Len(cards) THEN acc
    ELSE ReviewLoop(cards, k + 1, commits_by_hash,
                    CardReviewed(acc, cards[k], extract_commit_hash_from_card(cards[k]),
                                 commits_by_hash))

\* lines 171-178
RECURSIVE NewCommitsWithoutCards(_, _, _)
NewCommitsWithoutCards(commits, k, commits_with_cards) ==
    IF k > Len(commits) THEN <<>>
    ELSE IF /\ commits[k].commit.hash # ""
            /\ Take(commits[k].commit.hash, 8) \notin commits_with_cards
            /\ commits[k].commit.hash \notin commits_with_cards
    THEN <<commits[k]>> \o NewCommitsWithoutCards(commits, k + 1, commits_with_cards)
    ELSE NewCommitsWithoutCards(commits, k + 1, commits_with_cards)

\* lines 180-190
ReviewResult(cards, acc, new_commits_without_cards) ==
    [cards_to_update |-> acc.cards_to_update,
     cards_up_to_date |-> acc.cards_up_to_date,
     new_commits_without_cards |-> new_commits_without_cards,
     summary |-> [total_cards |-> Len(cards),
                  cards_to_update |-> Len(acc.cards_to_update),
                  cards_up_to_date |-> Len(acc.cards_up_to_date),
                  new_commits |-> Len(new_commits_without_cards)]]

\* lines 114-195 once the cards and the relevant commits are known
Reviewed(cards, commits, acc) ==
    Return(ReviewResult(cards, acc, NewCommitsWithoutCards(commits, 1, acc.commits_with_cards)))

\* lines 99-201: cards is the outcome of service.get_cards (line 99), commits
\* the one of get_recent_commits_analysis (line 103), which is not called
\* when the cards could not be read; an exception of either is reported and
\* raised
review_cards_for_updates(cards, commits) ==
    IF cards.raised THEN cards
    ELSE IF commits.raised THEN commits
    ELSE Reviewed(cards.value, commits.value,
                  ReviewLoop(cards.value, 1, CommitsByHash(commits.value, 1, EmptyDict),
                             [cards_to_update |-> <<>>, cards_up_to_date |-> <<>>,
                              commits_with_cards |-> {}]))

\* The cards the list may hold: one made by the tool for a1, one that names
\* a8 by its full hash in prose, one that names another commit whose hash
\* begins like that of a1, one written by hand
ListCards ==
    <<[id |-> "c1", desc |-> "**Commit:** " \o Backtick \o Take(FullHash("a1"), 8) \o Backtick
                            \o "\n**Autor:** Ana"],
     [id |-> "c2", desc |-> "Ported in commit: " \o FullHash("a8") \o "."],
     [id |-> "c3", desc |-> "**Commit:**" \o Backtick \o Take(FullHash("a1"), 8) \o "ffff"
                            \o Backtick],
     [id |-> "c4", desc |-> "Port the cache, then commit"]>>

\* A list holds at most MaxCards cards
MaxCards == 2

\* the ways to pick n cards, in the order of ListCards
Picks(n) == {pick \in [1..n -> DOMAIN ListCards] : \A a, b \in 1..n : a < b => pick[a] < pick[b]}

\* The lists of cards the review is run on
CardLists == UNION {{[k \in 1..n |-> ListCards[pick[k]]] : pick \in Picks(n)} : n \in 0..MaxCards}

\* The outputs of git log the review is run on
ReviewLogs == {<<>>, <<"a1">>, <<"a8", "a1">>, <<"a3">>}

\* What service.get_cards answers: the cards of the list, or an HTTP error
CardsAnswers == {Return(cards) : cards \in CardLists} \cup {Raise("HTTPStatusError")}

\* the review returns; relevant_commits is its local of line 103
ReviewReturns(op, cards, commits) ==
    /\ call' = op
    /\ ret' = review_cards_for_updates(cards, commits)
    /\ relevant_commits' = IF cards.raised \/ commits.raised THEN <<>> ELSE commits.value
    /\ service_calls' = <<>>
    /\ pc' = "returned"
    /\ UNCHANGED <<fs, queue, tasks>>

ReviewCardsForUpdates ==
    /\ pc = "idle"
    /\ \E cards \in CardsAnswers, commit_hashes \in ReviewLogs :
          ReviewReturns([op |-> "review_cards_for_updates", cards |-> cards,
                         commit_hashes |-> commit_hashes],
                        cards,
                        get_recent_commits_analysis(fs, run_git_command(fs, commit_hashes)))

\* the caller has consumed the result; nothing is kept between calls
Discard ==
    /\ pc = "returned"
    /\ pc' = "idle"
    /\ call' = NoCall
    /\ ret' = Return(None)
    /\ queue' = <<>>
    /\ relevant_commits' = <<>>
    /\ service_calls' = <<>>
    /\ UNCHANGED <<fs, tasks>>

Next ==
    \/ IsRelevantForKotlin
    \/ AnalyzeCodeChanges
    \/ AnalyzeFileChanges
    \/ CheckKotlinImplementation
    \/ MapSwiftToKotlinPath
    \/ AnalyzeCommitForKotlin
    \/ GetRecentCommitsAnalysis
    \/ GetRecentCommits
    \/ ParseDateSince
    \/ ShouldCreateKotlinTask
    \/ CreateSmartCardFromCommit
    \/ CreateSmartCardsFromRecentCommits
    \/ ReviewCardsForUpdates
    \/ AnalyzeNextCommit
    \/ ReturnRelevantCommits
    \/ Discard

Spec == Init /\ [][Next]_vars

(***************************************************************************)
(* Analyses of two commits run side by side.  Each run of                  *)
(* analyze_commit_for_kotlin owns its locals (lines 641-642); the runs     *)
(* advance one statement group at a time, in any order.                    *)
(***************************************************************************)

\* The commits analysed side by side
ParallelHashes == {"a1", "a6", "a9", UnknownHash}

\* a run before its first statement; at is the line of files_output the loop
\* is at (0 before line 607), outcome is <<>> while the run has not returned
NewTask(commit_hash) ==
    [commit_hash |-> commit_hash, at |-> 0, commit_info |-> "",
     relevant_files |-> <<>>, irrelevant_files |-> <<>>, outcome |-> <<>>]

ParallelInit ==
    /\ fs \in Snapshots
    /\ pc = "parallel"
    /\ call = NoCall
    /\ ret = Return(None)
    /\ queue = <<>>
    /\ relevant_commits = <<>>
    /\ service_calls = <<>>
    /\ tasks \in {<<NewTask(q[1]), NewTask(q[2])>> : q \in DistinctSeqs(ParallelHashes, 2)
                                                         \ DistinctSeqs(ParallelHashes, 1)}

\* one list pair for all the runs, kept by the first
LocalsShared(all_tasks, t) ==
    [relevant_files |-> all_tasks[1].relevant_files,
     irrelevant_files |-> all_tasks[1].irrelevant_files]

\* the lists of lines 641-642 the run t appends to
LocalsOf(all_tasks, t) ==
    [relevant_files |-> all_tasks[t].relevant_files,
     irrelevant_files |-> all_tasks[t].irrelevant_files]

\* lines 607-613, commit_info the outcome of the query of line 607
TaskStarted(task, commit_info) ==
    IF commit_info.raised THEN [task EXCEPT !.outcome = <<commit_info>>]
    ELSE IF commit_info.value = ""
    THEN [task EXCEPT !.outcome =
              <<Return([relevant |-> FALSE, reason |-> "Commit no encontrado"])>>]
    ELSE [task EXCEPT !.at = 1, !.commit_info = commit_info.value]

StartTask(t) ==
    /\ tasks[t].outcome = <<>>
    /\ tasks[t].at = 0
    /\ tasks' = [tasks EXCEPT ![t] =
                    TaskStarted(@, run_git_command(fs, GitShowStat(tasks[t].commit_hash)))]
    /\ UNCHANGED <<fs, pc, call, ret, queue, relevant_commits, service_calls>>

\* one iteration of the loop of lines 644-671, files the outcome of the
\* iteration
FileStepped(task, files) ==
    IF files.raised THEN [task EXCEPT !.outcome = <<files>>]
    ELSE [task EXCEPT !.at = @ + 1,
                      !.relevant_files = files.value.relevant_files,
                      !.irrelevant_files = files.value.irrelevant_files]

FileStep(t) ==
    /\ tasks[t].outcome = <<>>
    /\ tasks[t].at \in DOMAIN GitShowNameStatus(tasks[t].commit_hash)
    /\ tasks' = [tasks EXCEPT ![t] =
                    FileStepped(@, FilesLoop(fs, tasks[t].commit_hash,
                                             <<GitShowNameStatus(tasks[t].commit_hash)[tasks[t].at]>>,
                                             1, LocalsOf(tasks, t)))]
    /\ UNCHANGED <<fs, pc, call, ret, queue, relevant_commits, service_calls>>

\* lines 673-688
FinishTask(t) ==
    /\ tasks[t].outcome = <<>>
    /\ tasks[t].at > Len(GitShowNameStatus(tasks[t].commit_hash))
    /\ tasks' = [tasks EXCEPT ![t].outcome =
                    <<CommitAnalysed(tasks[t].commit_hash, tasks[t].commit_info,
                                     Return(LocalsOf(tasks, t)))>>]
    /\ UNCHANGED <<fs, pc, call, ret, queue, relevant_commits, service_calls>>

ParallelNext ==
    \E t \in 1..2 :
        \/ StartTask(t)
        \/ FileStep(t)
        \/ FinishTask(t)

ParallelSpec == ParallelInit /\ [][ParallelNext]_vars

(***************************************************************************)
(* Properties                                                              *)
(***************************************************************************)

\* the call of op has returned or raised
Returned(op) == pc = "returned" /\ call.op = op

\* the file verdicts a commit analysis carries
FilesOf(result) ==
    IF "relevant_files" \in DOMAIN result THEN result.relevant_files ELSE <<>>

\* C1: the commit-level relevant flag of every result of
\* analyze_commit_for_kotlin is true iff some file verdict of the result
\* is relevant and its implementation status needs implementation.
C1_AggregationInvariant ==
    (Returned("analyze_commit_for_kotlin") /\ ~ret.raised) =>
        (ret.value.relevant <=>
            \E k \in DOMAIN FilesOf(ret.value) :
                /\ FilesOf(ret.value)[k].analysis.relevant
                /\ FilesOf(ret.value)[k].analysis.kotlin_check.needs_implementation)

\* a commit with a relevant file that needs no implementation: not relevant
C1_Witness ==
    /\ Returned("analyze_commit_for_kotlin")
    /\ ~ret.raised
    /\ FilesOf(ret.value) # <<>>
    /\ \A k \in DOMAIN FilesOf(ret.value) :
          /\ FilesOf(ret.value)[k].analysis.relevant
          /\ ~FilesOf(ret.value)[k].analysis.kotlin_check.needs_implementation
    /\ ~ret.value.relevant

\* C2: is_relevant_for_kotlin returns false whenever an exclusion pattern
\* matches the path, also when an inclusion pattern matches it.
C2_FilterSoundness ==
    (Returned("is_relevant_for_kotlin") /\ ExcludeMatches(call.file_path)) =>
        (~ret.raised /\ ret.value = FALSE)

\* a path that an exclusion and an inclusion pattern match was rejected
C2_Witness ==
    /\ Returned("is_relevant_for_kotlin")
    /\ ExcludeMatches(call.file_path)
    /\ RelevantMatches(call.file_path)
    /\ ret.value = FALSE

\* C3: is_relevant_for_kotlin returns false for every path that no
\* exclusion and no inclusion pattern matches; it returns a boolean for
\* every path, never raises, and its call changes nothing of the file
\* system or of a batch.
C3_ClosedWorldFilter ==
    /\ [](Returned("is_relevant_for_kotlin") =>
            /\ ~ret.raised
            /\ ret.value \in BOOLEAN
            /\ (~ExcludeMatches(call.file_path) /\ ~RelevantMatches(call.file_path))
                   => ret.value = FALSE)
    /\ [][(pc = "idle" /\ call'.op = "is_relevant_for_kotlin")
             => UNCHANGED <<fs, queue, relevant_commits>>]_vars

\* a path under Sources/ that no pattern matches was rejected
C3_Witness ==
    /\ Returned("is_relevant_for_kotlin")
    /\ Contains(call.file_path, "Sources/")
    /\ ~ExcludeMatches(call.file_path)
    /\ ~RelevantMatches(call.file_path)
    /\ ret.value = FALSE

\* C4: in every outcome of check_kotlin_implementation that is a status,
\* needs_implementation is true iff the missing list is not empty.
C4_NeedsIffMissing ==
    (Returned("check_kotlin_implementation") /\ ~ret.raised) =>
        (ret.value.needs_implementation <=> ret.value.missing_implementation # <<>>)

\* the mapped destination file of a path does not exist
DestinationAbsent(snapshot, swift_file_path) ==
    \/ map_swift_to_kotlin_path(snapshot, swift_file_path) = None
    \/ ~KotlinExists(snapshot, map_swift_to_kotlin_path(snapshot, swift_file_path))

\* the symbols of a delta that a status lists
SymbolsOf(code_changes) ==
    Range(code_changes.properties_added) \cup Range(code_changes.functions_added)
    \cup Range(code_changes.classes_added) \cup Range(code_changes.structs_added)
    \cup Range(code_changes.enums_added)

\* entry names symbol: "<kind>: <symbol>"
Names(entry, symbol) == EndsWith(entry, ": " \o symbol)

\* C5: when the destination project exists and the mapped destination
\* file does not, check_kotlin_implementation returns normally, with
\* needs_implementation true, a note, and a missing list that names every
\* symbol of the delta; the file that adds struct Widget with three
\* properties has change_type model_added.
C5_AbsentDestination ==
    /\ (Returned("check_kotlin_implementation") /\ fs.kotlin_project
            /\ DestinationAbsent(fs, call.swift_file_path)) =>
          /\ ~ret.raised
          /\ ret.value.needs_implementation
          /\ ret.value.notes # <<>>
          /\ \A symbol \in SymbolsOf(call.code_changes) :
                \E k \in DOMAIN ret.value.missing_implementation :
                    Names(ret.value.missing_implementation[k], symbol)
    /\ (Returned("analyze_file_changes") /\ ~ret.raised /\ call.commit_hash = "a1") =>
          ret.value.change_type = "model_added"

\* the file analysis has returned a verdict that is relevant
Relevant(file_analysis) == ~file_analysis.raised /\ file_analysis.value.relevant

\* some changed file of the commit that is analysed has no destination file
SomeDestinationAbsent(snapshot, commit_hash) ==
    \E k \in DOMAIN GitShowNameStatus(commit_hash) :
        /\ is_relevant_for_kotlin(FilePathOf(GitShowNameStatus(commit_hash)[k]))
        /\ Relevant(analyze_file_changes(snapshot,
                                         FilePathOf(GitShowNameStatus(commit_hash)[k]),
                                         commit_hash))
        /\ DestinationAbsent(snapshot, FilePathOf(GitShowNameStatus(commit_hash)[k]))

\* C6: no call of check_kotlin_implementation, analyze_commit_for_kotlin
\* or get_recent_commits_analysis raises when there is no destination
\* file, no commit, no relevant file or no symbol: each returns a value.
C6_NothingFoundReturns ==
    /\ (Returned("check_kotlin_implementation") /\ DestinationAbsent(fs, call.swift_file_path))
          => ~ret.raised
    /\ (Returned("analyze_commit_for_kotlin")
            /\ (call.commit_hash \notin DOMAIN Repo
                \/ GitShowNameStatus(call.commit_hash) = <<>>
                \/ SomeDestinationAbsent(fs, call.commit_hash)))
          => ~ret.raised
    /\ (Returned("get_recent_commits_analysis") /\ call.commit_hashes = <<>>)
          => ~ret.raised

\* C7: a batch of get_recent_commits_analysis over several commits ends
\* with every commit of the log analysed and a list returned, whatever a
\* single commit's analysis ends in.
C7_BatchIsolation ==
    (Returned("get_recent_commits_analysis") /\ Len(call.commit_hashes) > 1)
        => (~ret.raised /\ queue = <<>>)

\* some line of lines holds token, in any case
AnyLineHas(lines, token) == \E k \in DOMAIN lines : ContainsLower(lines[k], token)

\* the precedence of change types with class, struct and enum as the
\* tokens of a type declaration
PrecedenceType(added_lines, removed_lines) ==
    IF AnyLineHas(added_lines, "public") THEN "api_change"
    ELSE IF AnyLineHas(added_lines, "func") THEN "functionality_added"
    ELSE IF AnyLineHas(added_lines, "class") \/ AnyLineHas(added_lines, "struct")
            \/ AnyLineHas(added_lines, "enum") THEN "model_added"
    ELSE IF Len(removed_lines) > 2 * Len(added_lines) THEN "refactor"
    ELSE IF Len(added_lines) > 2 * Len(removed_lines) THEN "feature_added"
    ELSE "modification"

\* C8: the change_type of a file verdict is the one of the first rule
\* that applies: public marker, function token, type token (class, struct
\* or enum), removed > 2 x added, added > 2 x removed, else modification;
\* 80 removed and 10 added lines without keywords give refactor and
\* relevant false.
C8_ChangeTypePrecedence ==
    (Returned("analyze_file_changes") /\ ~ret.raised /\ "change_type" \in DOMAIN ret.value) =>
        /\ ret.value.change_type \in
              {"api_change", "functionality_added", "model_added", "refactor",
               "feature_added", "modification"}
        /\ ret.value.change_type =
              PrecedenceType(AddedLines(GitShowFile(call.commit_hash, call.file_path)),
                             RemovedLines(GitShowFile(call.commit_hash, call.file_path)))
        /\ (ret.value.added_lines = 10 /\ ret.value.removed_lines = 80
              /\ ret.value.relevant_keywords = <<>>)
              => (ret.value.change_type = "refactor" /\ ~ret.value.relevant)

\* keyword stands at position i of text as a whole token, in any case:
\* no word character before it and none after it
TokenAt(text, i, keyword) ==
    /\ LitAtNoCase(text, i, keyword)
    /\ ~IsWordCh(Ch(text, i - 1))
    /\ ~IsWordCh(Ch(text, i + Len(keyword)))

\* how many of keywords stand in text as whole tokens
TokenCount(keywords, text) ==
    Cardinality({k \in DOMAIN keywords :
                    \E i \in 1..Len(text) : TokenAt(text, i, keywords[k])})

\* the added and removed lines of a diff, joined as line 137 joins them
ChangedText(diff) == Join(AddedLines(diff) \o RemovedLines(diff), "\n")

\* C9: the relevant flag of a file verdict is true iff more portable-surface
\* keywords than presentation/test-only keywords stand as whole tokens,
\* in any case, in the added and removed lines.
C9_KeywordMajority ==
    (Returned("analyze_file_changes") /\ ~ret.raised
        /\ "relevant_keywords" \in DOMAIN ret.value) =>
        (ret.value.relevant <=>
            TokenCount(KOTLIN_RELEVANT_KEYWORDS,
                       ChangedText(GitShowFile(call.commit_hash, call.file_path)))
            > TokenCount(KOTLIN_IRRELEVANT_KEYWORDS,
                         ChangedText(GitShowFile(call.commit_hash, call.file_path))))

\* the symbol kinds a delta has entries of
KindsOf(changes) ==
    {kind \in {"function", "property", "type", "extension", "initializer"} :
        CASE kind = "function" ->
                changes.functions_added # <<>> \/ changes.functions_modified # <<>>
          [] kind = "property" ->
                changes.properties_added # <<>> \/ changes.properties_modified # <<>>
          [] kind = "type" ->
                changes.classes_added # <<>> \/ changes.structs_added # <<>>
                \/ changes.enums_added # <<>>
          [] kind = "extension" -> changes.extensions_added # <<>>
          [] kind = "initializer" -> changes.initializers_modified # <<>>}

\* C10: every added line is recorded by analyze_code_changes under at
\* most one symbol kind of function, property, type, extension and
\* initializer.
C10_NoDoubleCounting ==
    Returned("analyze_code_changes") =>
        \A k \in DOMAIN call.added_lines :
            Cardinality(KindsOf(analyze_code_changes(<<call.added_lines[k]>>,
                                                     call.removed_lines,
                                                     fs.hash_seed))) <= 1

\* some line of lines holds name and one of tokens
DeclaredIn(lines, name, tokens) ==
    \E k \in DOMAIN lines :
        Contains(lines[k], name) /\ \E token \in tokens : Contains(lines[k], token)

\* no name of names is declared with one of tokens in lines
AllNew(names, lines, tokens) ==
    \A k \in DOMAIN names : ~DeclaredIn(lines, names[k], tokens)

\* C11: a symbol of any kind matched on an added line is listed as added
\* only if no removed line holds its name with a declaration token of its
\* kind, and a function listed as modified has such a removed line.
C11_MutationKind ==
    (Returned("analyze_code_changes") /\ ~ret.raised) =>
        /\ AllNew(ret.value.functions_added, call.removed_lines, {"func"})
        /\ AllNew(ret.value.properties_added, call.removed_lines, {"let", "var"})
        /\ AllNew(ret.value.classes_added, call.removed_lines, {"class"})
        /\ AllNew(ret.value.structs_added, call.removed_lines, {"struct"})
        /\ AllNew(ret.value.enums_added, call.removed_lines, {"enum"})
        /\ \A k \in DOMAIN ret.value.functions_modified :
              DeclaredIn(call.removed_lines, ret.value.functions_modified[k], {"func"})

\* C12: the single added line that declares foo(x, y) -> Bool, with no
\* removed line, gives one function entry foo, added, with params x, y
\* and return type Bool, and no entry of another kind.
C12_FunctionRoundTrip ==
    (Returned("analyze_code_changes")
        /\ call.added_lines = <<"func foo(x: Int, y: Int) -> Bool {">>
        /\ call.removed_lines = <<>>) =>
        /\ ~ret.raised
        /\ ret.value.functions_added = <<"foo">>
        /\ ret.value.functions_modified = <<>>
        /\ ret.value.function_details
              = ("foo" :> [params |-> <<"x", "y">>, return_type |-> "Bool"])
        /\ KindsOf(ret.value) = {"function"}
        /\ ret.value.property_details = <<>>

\* the declaration of foo was analysed and foo listed
C12_Witness ==
    /\ Returned("analyze_code_changes")
    /\ call.added_lines = <<"func foo(x: Int, y: Int) -> Bool {">>
    /\ call.removed_lines = <<>>
    /\ "foo" \in Range(ret.value.functions_added)

\* some entry of list names symbol
Listed(list, symbol) == \E k \in DOMAIN list : Names(list[k], symbol)

\* the symbols of a delta, added and modified, of every kind
AllSymbolsOf(code_changes) ==
    SymbolsOf(code_changes) \cup Range(code_changes.functions_modified)
    \cup Range(code_changes.properties_modified)

\* the names of names are listed as the patterns decide
ListedByPattern(status, names, kotlin_content, patterns) ==
    \A k \in DOMAIN names :
        Listed(status.already_implemented, names[k])
            <=> KotlinFound(kotlin_content, patterns, names[k])

\* C13: when the destination file was read, every symbol of the delta,
\* of every kind, added or modified, is in exactly one of
\* already_implemented and missing_implementation, and a property, function
\* or class is in already_implemented iff a pattern of its kind matches
\* the file's text.
C13_EverySymbolClassified ==
    (Returned("check_kotlin_implementation") /\ ~ret.raised
        /\ ret.value.kotlin_file_path \in DOMAIN fs.content) =>
        /\ \A symbol \in AllSymbolsOf(call.code_changes) :
              Listed(ret.value.already_implemented, symbol)
                  # Listed(ret.value.missing_implementation, symbol)
        /\ ListedByPattern(ret.value, call.code_changes.properties_added,
                           fs.content[ret.value.kotlin_file_path], property_kotlin_patterns)
        /\ ListedByPattern(ret.value, call.code_changes.functions_added,
                           fs.content[ret.value.kotlin_file_path], function_kotlin_patterns)
        /\ ListedByPattern(ret.value, call.code_changes.classes_added,
                           fs.content[ret.value.kotlin_file_path], class_kotlin_patterns)

\* kotlin_path is a file that declares the type Widget and its members
DeclaresWidget(snapshot, kotlin_path) ==
    /\ kotlin_path \in DOMAIN snapshot.content
    /\ KotlinFound(snapshot.content[kotlin_path], class_kotlin_patterns, "Widget")
    /\ \A member \in {"id", "title", "count"} :
          KotlinFound(snapshot.content[kotlin_path], property_kotlin_patterns, member)

\* C14: a commit that adds the type Widget with properties in a relevant
\* directory, when the destination file exists and declares the type and
\* all the members, has an empty missing list, needs_implementation false
\* and the commit-level relevant flag false.
C14_AlreadyImplemented ==
    (Returned("analyze_commit_for_kotlin") /\ call.commit_hash \in {"a1", "a8"}
        /\ DeclaresWidget(fs, map_swift_to_kotlin_path(fs, "Sources/ReachuCore/Widget.swift"))) =>
        /\ ~ret.raised
        /\ ~ret.value.relevant
        /\ \A k \in DOMAIN FilesOf(ret.value) :
              /\ FilesOf(ret.value)[k].analysis.kotlin_check.missing_implementation = <<>>
              /\ ~FilesOf(ret.value)[k].analysis.kotlin_check.needs_implementation

\* every changed file of the commit lies under the excluded test directory
OnlyTestFiles(commit_hash) ==
    /\ GitShowNameStatus(commit_hash) # <<>>
    /\ \A k \in DOMAIN GitShowNameStatus(commit_hash) :
          Contains(FilePathOf(GitShowNameStatus(commit_hash)[k]), "Tests/")

\* reason speaks of an exclusion: by the word, by an exclusion pattern or by
\* the path of a changed file
CitesExclusion(reason, commit_hash) ==
    \/ ContainsLower(reason, "exclu")
    \/ \E k \in DOMAIN EXCLUDE_PATTERNS : Contains(reason, EXCLUDE_PATTERNS[k])
    \/ \E k \in DOMAIN GitShowNameStatus(commit_hash) :
          Contains(reason, FilePathOf(GitShowNameStatus(commit_hash)[k]))

\* C15: the analysis of a commit whose changed files all lie under the
\* excluded test directory has relevant false and a reason that cites
\* the exclusion.
C15_TestOnlyCommit ==
    (Returned("analyze_commit_for_kotlin") /\ OnlyTestFiles(call.commit_hash)) =>
        /\ ~ret.raised
        /\ ~ret.value.relevant
        /\ CitesExclusion(ret.value.reason, call.commit_hash)

\* git answers the queries about the commit with nothing: the hash is
\* unknown, or the commit (a merge) has no changed file
EmptyAnswer(commit_hash) ==
    GitShowStat(commit_hash) = "" \/ GitShowNameStatus(commit_hash) = <<>>

\* C16: when git answers the query about a commit with nothing (unknown
\* hash, merge commit without diff) analyze_commit_for_kotlin returns, with
\* relevant false and no file verdict; when the log query is answered with
\* nothing get_recent_commits_analysis and get_recent_commits return the
\* empty list.
C16_EmptyAnswerTolerated ==
    /\ (Returned("analyze_commit_for_kotlin") /\ fs.git_available
            /\ EmptyAnswer(call.commit_hash)) =>
          /\ ~ret.raised
          /\ ~ret.value.relevant
          /\ FilesOf(ret.value) = <<>>
    /\ (Returned("get_recent_commits_analysis") /\ fs.git_available
            /\ call.commit_hashes = <<>>) =>
          ret = Return(<<>>)
    /\ (Returned("get_recent_commits") /\ fs.git_available
            /\ ~parse_date_since(call.since, call.today).raised
            /\ call.commit_hashes = <<>>) =>
          ret = Return(<<>>)

C16_Witness ==
    /\ Returned("analyze_commit_for_kotlin")
    /\ fs.git_available
    /\ call.commit_hash = UnknownHash
    /\ ret = Return([relevant |-> FALSE, reason |-> "Commit no encontrado"])

\* C17: a call made while git cannot be started in the origin repository
\* (executable or directory not there) still returns a value, the one of
\* the empty answer: the commit is not found, the list of commits is empty.
C17_FailuresDegrade ==
    (pc = "returned" /\ ~fs.git_available
        /\ call.op \in {"analyze_commit_for_kotlin", "get_recent_commits_analysis",
                        "get_recent_commits"}) =>
        /\ ~ret.raised
        /\ call.op = "analyze_commit_for_kotlin" =>
              ret.value = [relevant |-> FALSE, reason |-> "Commit no encontrado"]
        /\ call.op # "analyze_commit_for_kotlin" => ret.value = <<>>

\* C18: a second run of analyze_commit_for_kotlin on the same commit, the
\* same repository and the same file systems, in an interpreter of its
\* own, gives a result equal to the first in every field, the order of the
\* names in the description entries included.
C18_Deterministic ==
    Returned("analyze_commit_for_kotlin") =>
        \A hash_seed \in 0..(HashSeeds - 1) :
            analyze_commit_for_kotlin([fs EXCEPT !.hash_seed = hash_seed],
                                      call.commit_hash) = ret

\* the first mapping rule whose origin prefix the path holds, 0 if none
FirstRule(swift_path) ==
    Min0({k \in DOMAIN path_mappings : Contains(swift_path, path_mappings[k][1])})

\* the destination directory of the k-th rule
KotlinDir(k) == PathJoin(KOTLIN_SDK_PATH, path_mappings[k][2])

\* the path whose existence the mapper tests under the k-th rule
DirectCandidate(swift_path, k) ==
    PathJoin(KotlinDir(k), KotlinFilename(swift_path, path_mappings[k][1]))

\* the roots of the listing of directory that list the file, by position
RootsListing(snapshot, directory, filename) ==
    IF directory \notin DOMAIN snapshot.walk THEN {}
    ELSE {k \in DOMAIN snapshot.walk[directory] :
             filename \in snapshot.walk[directory][k].files}

\* the path the fallback search has to give under the k-th rule: the file
\* under the first root of the listing that lists it
FirstListed(snapshot, swift_path, k) ==
    PathJoin(snapshot.walk[KotlinDir(k)]
                 [Min0(RootsListing(snapshot, KotlinDir(k),
                                    KotlinFilename(swift_path, path_mappings[k][1])))].root,
             KotlinFilename(swift_path, path_mappings[k][1]))

\* C19: when the direct candidate of the first matching rule exists,
\* map_swift_to_kotlin_path returns it and walks no directory; when it does
\* not exist and the listing of the destination directory holds the file,
\* the result is the file under the first root of the listing that lists
\* it, and it is the same in every environment with the same listings.
C19_DirectBeforeSearch ==
    (Returned("map_swift_to_kotlin_path") /\ FirstRule(call.swift_path) # 0) =>
        /\ ~ret.raised
        /\ KotlinExists(fs, DirectCandidate(call.swift_path, FirstRule(call.swift_path))) =>
              /\ ret.value = DirectCandidate(call.swift_path, FirstRule(call.swift_path))
              /\ MappingLoop(fs, call.swift_path, 1, <<>>, <<>>).walked = <<>>
        /\ (/\ ~KotlinExists(fs, DirectCandidate(call.swift_path,
                                                 FirstRule(call.swift_path)))
            /\ RootsListing(fs, KotlinDir(FirstRule(call.swift_path)),
                            KotlinFilename(call.swift_path,
                                           path_mappings[FirstRule(call.swift_path)][1]))
                  # {}) =>
              ret.value = FirstListed(fs, call.swift_path, FirstRule(call.swift_path))
        /\ \A snapshot \in Snapshots :
              snapshot.walk = fs.walk =>
                  map_swift_to_kotlin_path(snapshot, call.swift_path) = ret.value

\* the search has found the file under the first of two roots that list it
C19_Witness ==
    /\ Returned("map_swift_to_kotlin_path")
    /\ call.swift_path = "Sources/ReachuCore/Widget.swift"
    /\ ~KotlinExists(fs, CoreDir \o "Widget.kt")
    /\ Cardinality(RootsListing(fs, CoreDir, "Widget.kt")) = 2
    /\ ret = Return(CoreDir \o "legacy/Widget.kt")

\* the origin path with the leading origin prefix of the k-th rule replaced
\* by the destination prefix and .swift by .kt, the rest as it is
PrefixSubstituted(swift_path, k) ==
    PathJoin(KOTLIN_SDK_PATH,
             path_mappings[k][2]
             \o Replace(SubSeq(swift_path, Len(path_mappings[k][1]) + 1, Len(swift_path)),
                        ".swift", ".kt"))

\* C20: for an origin path that starts with the origin prefix of a rule,
\* map_swift_to_kotlin_path tests one destination candidate, under the
\* first such rule: the origin path with the prefix substituted and the
\* extension translated, intermediate directories kept.
C20_PrefixSubstitution ==
    (/\ Returned("map_swift_to_kotlin_path")
     /\ FirstRule(call.swift_path) # 0
     /\ StartsWith(call.swift_path, path_mappings[FirstRule(call.swift_path)][1])) =>
        MappingLoop(fs, call.swift_path, 1, <<>>, <<>>).tested
            = <<PrefixSubstituted(call.swift_path, FirstRule(call.swift_path))>>

\* the rules whose origin prefix the path holds
MatchingRules(swift_path) ==
    {k \in DOMAIN path_mappings : Contains(swift_path, path_mappings[k][1])}

\* a file with the translated basename is under the destination directory
\* of the k-th rule
FileUnderRule(snapshot, swift_path, k) ==
    \/ KotlinExists(snapshot, DirectCandidate(swift_path, k))
    \/ RootsListing(snapshot, KotlinDir(k),
                    KotlinFilename(swift_path, path_mappings[k][1])) # {}

BeginsWithRelevant(file_path) ==
    \E k \in DOMAIN RELEVANT_PATTERNS : StartsWith(file_path, RELEVANT_PATTERNS[k])

\* C22: is_relevant_for_kotlin returns true only for a path that begins
\* with one of the inclusion prefixes; a path that holds such a prefix
\* after another leading directory is not relevant.
C22_InclusionIsPrefix ==
    (Returned("is_relevant_for_kotlin") /\ ret.value = TRUE) =>
        BeginsWithRelevant(call.file_path)

\* the expression is a number followed by the unit and "ago", as in
\* "7 days ago"
NumberedForm(date_str, unit) ==
    /\ DigitRun(date_str, 1) # ""
    /\ Len(date_str) = Len(DigitRun(date_str, 1)) + Len(unit) + 5
    /\ LitAtNoCase(date_str, Len(DigitRun(date_str, 1)) + 1, " " \o unit \o " ago")

\* the expression is an absolute date YYYY-MM-DD
AbsoluteForm(date_str) ==
    /\ Len(date_str) = 10
    /\ \A i \in 1..10 : IF i \in {5, 8} THEN Ch(date_str, i) = "-"
                        ELSE Ch(date_str, i) \in Digits

\* the expression names none of the relative forms
OtherForm(date_str) ==
    /\ ~ContainsLower(date_str, "monday")
    /\ ~ContainsLower(date_str, "days ago")
    /\ ~ContainsLower(date_str, "weeks ago")

\* C23: parse_date_since never raises; "N days ago" and "N weeks ago" give
\* the date that many days before today, the last-Monday literal a Monday
\* before today, and every expression of another form (an absolute date
\* included) is returned as given.
C23_OtherExpressionsPassThrough ==
    Returned("parse_date_since") =>
        /\ ~ret.raised
        /\ NumberedForm(call.date_str, "days") =>
              ret.value = strftime(call.today - ToInt(DigitRun(call.date_str, 1)))
        /\ NumberedForm(call.date_str, "weeks") =>
              ret.value = strftime(call.today - 7 * ToInt(DigitRun(call.date_str, 1)))
        /\ OtherForm(call.date_str) => ret.value = call.date_str

\* the entry of relevant_files is what the analysis of its file alone gives
FileAlone(snapshot, commit_hash, entry) ==
    /\ ~analyze_file_changes(snapshot, entry.path, commit_hash).raised
    /\ entry.analysis =
          ("kotlin_check" :>
              check_kotlin_implementation(snapshot, entry.path,
                                          entry.analysis.code_changes).value)
          @@ analyze_file_changes(snapshot, entry.path, commit_hash).value

\* C24: in every interleaving of two analyses of distinct commits, an
\* analysis that has returned has returned what analyze_commit_for_kotlin
\* gives for its commit alone, and every file verdict it has recorded so
\* far is the verdict of that file analysed alone.
C24_InterleavingIndependent ==
    pc = "parallel" =>
        \A t \in DOMAIN tasks :
            /\ tasks[t].outcome # <<>> =>
                  tasks[t].outcome[1] = analyze_commit_for_kotlin(fs, tasks[t].commit_hash)
            /\ \A k \in DOMAIN tasks[t].relevant_files :
                  FileAlone(fs, tasks[t].commit_hash, tasks[t].relevant_files[k])

C24_Witness ==
    /\ pc = "parallel"
    /\ tasks[1].commit_hash = "a9" /\ tasks[1].at = 3 /\ tasks[1].outcome = <<>>
    /\ Len(tasks[1].irrelevant_files) > 0
    /\ tasks[2].commit_hash = "a6" /\ tasks[2].outcome # <<>>
    /\ ~tasks[2].outcome[1].raised
    /\ Len(tasks[2].outcome[1].value.relevant_files) > 0

\* analyze_commit_for_kotlin on the commit alone returns relevant
RelevantAlone(snapshot, commit_hash) ==
    Relevant(analyze_commit_for_kotlin(snapshot, commit_hash))

\* the posts of the call that Trello answered with a card
AnsweredPosts == {n \in DOMAIN service_calls : n \notin call.failures}

\* C25: create_smart_card_from_commit posts a card only for a commit whose
\* analysis is relevant and raises without a post otherwise; the batch with
\* dry_run posts nothing and returns the empty list; without dry_run it
\* returns exactly the cards Trello answered with, and every relevant commit
\* of the log has been posted, failing ones being skipped.
C25_CardsGatedByVerdict ==
    /\ Returned("create_smart_card_from_commit") =>
          /\ service_calls # <<>> => RelevantAlone(fs, call.commit_hash)
          /\ ~RelevantAlone(fs, call.commit_hash) => ret.raised /\ service_calls = <<>>
    /\ (Returned("create_smart_cards_from_recent_commits") /\ call.dry_run) =>
          /\ service_calls = <<>>
          /\ ret = Return(<<>>)
    /\ (Returned("create_smart_cards_from_recent_commits") /\ ~call.dry_run) =>
          /\ ~ret.raised
          /\ Len(ret.value) = Cardinality(AnsweredPosts)
          /\ \A k \in DOMAIN ret.value :
                \E n \in AnsweredPosts : ret.value[k] = ("id" :> "card" \o ToStr(n)) @@ service_calls[n]
          /\ Len(service_calls) =
                Cardinality({k \in DOMAIN call.commit_hashes :
                                RelevantAlone(fs, call.commit_hashes[k])})

\* the run of word characters of s that starts at i
RECURSIVE WordRun(_, _)
WordRun(s, i) == IF IsWordCh(Ch(s, i)) THEN Ch(s, i) \o WordRun(s, i + 1) ELSE ""

\* the ways a property declaration begins
DeclarationHeads ==
    {"let ", "var ", "public let ", "public var ", "private let ", "private var ",
     "static let ", "static var "}

\* the line declares a property: a head, then the identifier
DeclaresProperty(line) ==
    \E head \in DeclarationHeads :
        StartsWith(line, head) /\ WordRun(line, Len(head) + 1) # ""

\* the identifier the declaration introduces
DeclaredName(line) ==
    WordRun(line, Len(CHOOSE head \in DeclarationHeads : StartsWith(line, head)) + 1)

\* the type written after the colon that follows the identifier ("" if none)
DeclaredType(line) ==
    IF Contains(line, ": ") THEN WordRun(line, IndexFrom(line, ":", 1) + 2) ELSE ""

\* the text after the equals sign ("" if none)
DeclaredDefault(line) ==
    IF Contains(line, "= ") THEN Strip(SubSeq(line, IndexFrom(line, "=", 1) + 1, Len(line)))
    ELSE ""

RecordedProperties(changes) ==
    Range(changes.properties_added) \cup Range(changes.properties_modified)

\* C26: every added line that declares a property with let or var, with or
\* without a modifier before it, is recorded under the declared identifier,
\* and the detail record of that identifier holds the declared type and the
\* default value when it is shorter than 50 characters.
C26_PropertyNamedByIdentifier ==
    Returned("analyze_code_changes") =>
        \A k \in DOMAIN call.added_lines :
            DeclaresProperty(call.added_lines[k]) =>
                /\ DeclaredName(call.added_lines[k]) \in RecordedProperties(ret.value)
                /\ DeclaredType(call.added_lines[k]) # "" =>
                      /\ DeclaredName(call.added_lines[k]) \in DOMAIN ret.value.property_details
                      /\ ret.value.property_details[DeclaredName(call.added_lines[k])].type
                            = DeclaredType(call.added_lines[k])
                /\ (DeclaredDefault(call.added_lines[k]) # ""
                        /\ Len(DeclaredDefault(call.added_lines[k])) < 50) =>
                      /\ DeclaredName(call.added_lines[k]) \in DOMAIN ret.value.property_details
                      /\ ret.value.property_details[DeclaredName(call.added_lines[k])].default
                            = DeclaredDefault(call.added_lines[k])

\* the files "git log --name-status" lists for a commit, as the parser
\* records them
LoggedFiles(commit_hash) ==
    [k \in DOMAIN GitShowNameStatus(commit_hash) |->
        [status |-> Ch(GitShowNameStatus(commit_hash)[k], 1),
         path |-> FilePathOf(GitShowNameStatus(commit_hash)[k])]]

\* C27: get_recent_commits returns one record per commit header of the log
\* output, in the order of the log, and the files of each record are the
\* file-status lines that follow that commit's header, whatever the subject
\* of the commit is.
C27_OneRecordPerHeader ==
    (Returned("get_recent_commits") /\ ~ret.raised) =>
        /\ Len(ret.value) = Len(call.commit_hashes)
        /\ \A k \in DOMAIN ret.value :
              /\ ret.value[k].hash = FullHash(call.commit_hashes[k])
              /\ ret.value[k].files = LoggedFiles(call.commit_hashes[k])

\* the reasons should_create_kotlin_task gives when it refuses a relevant
\* verdict
Refusals ==
    {"Refactor interno, no requiere cambios en Kotlin",
     "Modificación menor, revisar manualmente",
     "Tipo de cambio desconocido"}

KnownChangeTypes ==
    {"api_change", "functionality_added", "model_added", "refactor", "feature_added",
     "modification"}

\* C28: for a verdict of analyze_file_changes with relevant true the
\* decision is (True, reason) with none of the three refusals, the verdict
\* has a relevant keyword and one of the six change types; for a verdict
\* with relevant false the decision is (False, reason).
C28_RelevantVerdictGetsTask ==
    Returned("should_create_kotlin_task") =>
        /\ call.file_analysis.relevant =>
              /\ ret.value[1] = TRUE
              /\ ret.value[2] \notin Refusals
              /\ call.file_analysis.relevant_keywords # <<>>
              /\ call.file_analysis.change_type \in KnownChangeTypes
        /\ ~call.file_analysis.relevant =>
              /\ ret.value[1] = FALSE
              /\ ret.value[2] = call.file_analysis.reason

C28_Witness ==
    /\ Returned("should_create_kotlin_task")
    /\ call.file_analysis.relevant
    /\ call.file_analysis.change_type = "modification"
    /\ ret = Return(<<TRUE, "Modificación con keywords relevantes">>)

\* the file is in the origin working tree and is named as a Swift file
PresentSwift(file_path) == file_path \in fs.swift_tree /\ EndsWith(file_path, ".swift")

\* the file passes the path filter and its keyword verdict is relevant
PathAndKeywordRelevant(file_path, commit_hash) ==
    /\ is_relevant_for_kotlin(file_path)
    /\ Relevant(analyze_file_changes(fs, file_path, commit_hash))

\* the paths of the changed files of a commit
ChangedPaths(commit_hash) ==
    {FilePathOf(GitShowNameStatus(commit_hash)[k]) : k \in DOMAIN GitShowNameStatus(commit_hash)}

References(card, commit_analysis) ==
    /\ extract_commit_hash_from_card(card) # None
    /\ \/ Take(extract_commit_hash_from_card(card), 8) = Take(commit_analysis.commit.hash, 8)
       \/ extract_commit_hash_from_card(card) = commit_analysis.commit.hash

\* how often the card is an entry of the list
TimesIn(entries, card) == Cardinality({i \in DOMAIN entries : entries[i].card = card})

\* the result is a partition of cards over the relevant commits
Partitions(cards, commits, result) ==
    /\ \A k \in DOMAIN cards :
          TimesIn(result.cards_to_update, cards[k])
              + TimesIn(result.cards_up_to_date, cards[k]) = 1
    /\ \A entry \in Range(result.cards_to_update) \cup Range(result.cards_up_to_date) :
          entry.card \in Range(cards)
    /\ result.summary.total_cards = Len(cards)
    /\ result.summary.cards_to_update = Len(result.cards_to_update)
    /\ result.summary.cards_up_to_date = Len(result.cards_up_to_date)
    /\ result.summary.cards_to_update + result.summary.cards_up_to_date
           = result.summary.total_cards
    /\ \A entry \in Range(result.cards_to_update) :
          \E commit_analysis \in Range(commits) : References(entry.card, commit_analysis)
    /\ Range(result.new_commits_without_cards)
           = {commit_analysis \in Range(commits) :
                  \A card \in Range(cards) : ~References(card, commit_analysis)}
    /\ result.summary.new_commits = Len(result.new_commits_without_cards)
    /\ Len(result.new_commits_without_cards)
           = Cardinality(Range(result.new_commits_without_cards))

====
